---------------------------- MODULE Spec2Model ----------------------------
(***************************************************************************)
(* A model of the GracyBot plugin runtime: version comparison, dependency  *)
(* cycle detection, two-phase plugin loading, command matching, the rate   *)
(* limiter, and the gateway (callback_base followed by                     *)
(* dispatch_plugin_cmd) with its audit log and execution accounting.       *)
(*                                                                         *)
(* Python strings whose characters matter (version strings, message text,  *)
(* trigger strings, user ids) are sequences of one-character strings.      *)
(***************************************************************************)
EXTENDS Integers, Sequences, FiniteSets, TLC

VARIABLES
    \* ---- core/plugin_manager.py ----
    plugin_dir,               \* the plugin directory on disk: dir name -> descriptor
    PLUGIN_REGISTRY,          \* list of registered plugins
    LOADED_PLUGIN_VERSIONS,   \* dict: plugin (dir) name -> version string
    DEPENDENCY_GRAPH,         \* dict: plugin (dir) name -> list of dependency names
    initialized,              \* PluginManager._initialized
    shutdown_calls,           \* dir name -> number of times its on_shutdown ran
    module_execs,             \* dir name -> number of times its core module ran
    pm_trace,                 \* observer: the last operation, what it found loaded
    \* ---- check_circular_dependency called on its own ----
    ccd_start, ccd_result,
    \* ---- compare_versions called on its own ----
    version1, version2, cmp_result,
    \* ---- get_matched_plugin ----
    match_input, match_result,
    \* ---- core/security_manager.py: RateLimiter ----
    clock,                    \* time.time(), in whole seconds
    requests,                 \* RateLimiter.requests: key -> list of timestamps
    rate_history,             \* the calls made so far: <<key, time, allowed>>
    \* ---- core/security_manager.py: SecurityManager ----
    blacklist, audit_logs,
    perm_check,               \* observer: the last direct call of check_permission
    \* ---- core/monitor.py ----
    plugin_stats, message_stats,
    \* ---- the gateway: core/handler.py, bot.py ----
    gate_log,                 \* one record per request served by callback
    \* ---- calls observed one by one, threads inside a call ----
    stat_calls,               \* the record_plugin_execution calls made so far
    limiter_threads,          \* request threads inside check_rate_limit
    registry_threads,         \* the threads writing and reading PLUGIN_REGISTRY
    audit_threads             \* request threads inside log_audit_event

pmVars    == <<plugin_dir, PLUGIN_REGISTRY, LOADED_PLUGIN_VERSIONS,
               DEPENDENCY_GRAPH, initialized, shutdown_calls, module_execs,
               pm_trace>>
ccdVars   == <<ccd_start, ccd_result>>
verVars   == <<version1, version2, cmp_result>>
matchVars == <<match_input, match_result>>
rateVars  == <<clock, requests, rate_history>>
secVars   == <<blacklist, audit_logs, perm_check>>
monVars   == <<plugin_stats, message_stats>>
threadVars == <<stat_calls, limiter_threads, registry_threads, audit_threads>>
vars == <<pmVars, ccdVars, verVars, matchVars, rateVars, secVars, monVars,
          gate_log, threadVars>>

(***************************************************************************)
(* Generic helpers                                                         *)
(***************************************************************************)
Range(s) == {s[i] : i \in 1..Len(s)}

Front(s) == SubSeq(s, 1, Len(s) - 1)

RECURSIVE IndexOf(_, _, _)
\* list.index(x): the first position of x in s, scanning from i
IndexOf(s, x, i) ==
    IF i > Len(s) THEN 0
    ELSE IF s[i] = x THEN i ELSE IndexOf(s, x, i + 1)

Max(a, b) == IF a >= b THEN a ELSE b

\* the empty dict
EmptyDict == [k \in {} |-> 0]

\* d[k] = v on a dict (insert or overwrite)
DictPut(d, k, v) == [x \in (DOMAIN d) \cup {k} |-> IF x = k THEN v ELSE d[x]]

\* Python's None, where a dict may stand instead
NoneValue == [none |-> TRUE]

(***************************************************************************)
(* PluginManager.parse_version / compare_versions                          *)
(***************************************************************************)
Digits == {"0", "1", "2", "3", "4", "5", "6", "7", "8", "9"}

DigitVal(c) ==
    CASE c = "0" -> 0 [] c = "1" -> 1 [] c = "2" -> 2 [] c = "3" -> 3
      [] c = "4" -> 4 [] c = "5" -> 5 [] c = "6" -> 6 [] c = "7" -> 7
      [] c = "8" -> 8 [] c = "9" -> 9

RECURSIVE FindDigitGroups(_, _, _, _)
\* re.findall(r'\d+', s) followed by int(): the maximal digit runs of s,
\* each converted from decimal.  cur < 0: no run is open.
FindDigitGroups(s, i, acc, cur) ==
    IF i > Len(s)
    THEN IF cur >= 0 THEN Append(acc, cur) ELSE acc
    ELSE IF s[i] \in Digits
         THEN FindDigitGroups(s, i + 1, acc,
                  (IF cur < 0 THEN 0 ELSE cur) * 10 + DigitVal(s[i]))
         ELSE FindDigitGroups(s, i + 1,
                  IF cur >= 0 THEN Append(acc, cur) ELSE acc, -1)

parse_version(version) == FindDigitGroups(version, 1, <<>>, -1)

\* parts += [0] * (max_len - len(parts))
PadZeros(parts, max_len) ==
    [i \in 1..max_len |-> IF i <= Len(parts) THEN parts[i] ELSE 0]

RECURSIVE CompareParts(_, _, _, _)
\* the 'for i in range(max_len)' loop of compare_versions
CompareParts(p1, p2, i, max_len) ==
    IF i > max_len THEN 0
    ELSE IF p1[i] > p2[i] THEN 1
    ELSE IF p1[i] < p2[i] THEN -1
    ELSE CompareParts(p1, p2, i + 1, max_len)

\* a mutant: the shorter version is not padded, only the common prefix is
\* compared and the longer version wins a tie
compare_versions_nopad(v1, v2) ==
    LET p1 == parse_version(v1)
        p2 == parse_version(v2)
        n  == IF Len(p1) <= Len(p2) THEN Len(p1) ELSE Len(p2)
        c  == CompareParts(p1, p2, 1, n)
    IN  IF c # 0 THEN c
        ELSE IF Len(p1) > Len(p2) THEN 1
        ELSE IF Len(p1) < Len(p2) THEN -1 ELSE 0

compare_versions(v1, v2) ==
    LET p1 == parse_version(v1)
        p2 == parse_version(v2)
        max_len == Max(Len(p1), Len(p2))
    IN  CompareParts(PadZeros(p1, max_len), PadZeros(p2, max_len), 1, max_len)


(***************************************************************************)
(* PluginManager.check_circular_dependency                                 *)
(*                                                                         *)
(* The Python method mutates the set 'visited' and the list 'path' it is   *)
(* given and returns a bool; the operator returns all three, and the cycle *)
(* it logs (<<>> when it logs none).  G is DEPENDENCY_GRAPH.               *)
(***************************************************************************)
RECURSIVE check_circular_dependency(_, _, _, _), CcdLoop(_, _, _, _)

\* a mutant: any dependency visited before counts as a cycle ('elif' without
\* the test against the current path)
CcdLoop_visited(G, deps, i, st) ==
    IF i > Len(deps) THEN st
    ELSE LET dependency == deps[i] IN
         IF dependency \notin st.visited
         THEN LET r == check_circular_dependency(G, dependency, st.visited, st.path)
              IN  IF r.found THEN r ELSE CcdLoop(G, deps, i + 1, r)
         ELSE [st EXCEPT !.found = TRUE,
                         !.cycle = SubSeq(st.path,
                                          Max(1, IndexOf(st.path, dependency, 1)),
                                          Len(st.path)) \o <<dependency>>]

\* 'for dependency in DEPENDENCY_GRAPH[plugin_name]', from position i
CcdLoop(G, deps, i, st) ==
    IF i > Len(deps) THEN st
    ELSE LET dependency == deps[i] IN
         IF dependency \notin st.visited
         THEN LET r == check_circular_dependency(G, dependency, st.visited, st.path)
              IN  IF r.found THEN r ELSE CcdLoop(G, deps, i + 1, r)
         ELSE IF dependency \in Range(st.path)
         THEN LET cycle_start_index == IndexOf(st.path, dependency, 1)
              IN  [st EXCEPT !.found = TRUE,
                             !.cycle = SubSeq(st.path, cycle_start_index, Len(st.path))
                                         \o <<dependency>>]
         ELSE CcdLoop(G, deps, i + 1, st)

check_circular_dependency(G, plugin_name, visited, path) ==
    LET st0 == [found |-> FALSE, cycle |-> <<>>,
                visited |-> visited \cup {plugin_name},
                path |-> Append(path, plugin_name)]
        st1 == IF plugin_name \in DOMAIN G
               THEN CcdLoop(G, G[plugin_name], 1, st0)
               ELSE st0
    IN  IF st1.found THEN st1
        ELSE [st1 EXCEPT !.path = Front(st1.path)]      \* path.pop()

(***************************************************************************)
(* The plugin directory                                                    *)
(***************************************************************************)
Dirs == {"a", "b", "c"}

\* os.listdir(plugin_dir).  Its order is arbitrary; every dependency graph
\* over the three names is enumerated, so one fixed order loses no case.
listdir == <<"a", "b", "c">>

MaxDeps == 2

IsDistinct(s) == \A i, j \in 1..Len(s) : i # j => s[i] # s[j]

\* the lists of dependency names a descriptor may declare
DepLists == {s \in UNION {[1..n -> Dirs] : n \in 0..MaxDeps} : IsDistinct(s)}

V_0_0_0 == <<"0", ".", "0", ".", "0">>
V_1_0   == <<"1", ".", "0">>
V_2_0   == <<"2", ".", "0">>
V_1_2_0 == <<"1", ".", "2", ".", "0">>
V_0_9_9 == <<"0", ".", "9", ".", "9">>
V_v2_0_1 == <<"v", "2", ".", "0", ".", "1">>

\* max_version absent (dep.get('max_version', None)); None and "" are both falsy
NoMaxVersion == <<>>

\* What one plugin directory holds, besides its dependency names.
\*   readable : phase 1 obtains a PLUGIN_META with all required fields
\*   core     : "ok" | "missing_file" | "no_handler" (what phase 2 finds)
\*   on_shutdown : "none" | "ok" | "raises" (the core module's hook)
Defects == {"unreadable", "missing_file", "no_handler", "too_old", "too_new",
            "hook_raises"}

Profiles == {[dir |-> "-", defect |-> "none", ranged |-> r] : r \in BOOLEAN}
            \cup {[dir |-> d, defect |-> k, ranged |-> TRUE] : d \in Dirs, k \in Defects}

Descriptor(d, depnames, profile) ==
    LET hit == profile.dir = d IN
    [ readable |-> ~(hit /\ profile.defect = "unreadable"),
      name |-> d,
      version |-> IF hit /\ profile.defect = "too_old" THEN V_0_9_9
                  ELSE IF hit /\ profile.defect = "too_new" THEN V_v2_0_1
                  ELSE V_1_2_0,
      commands |-> << <<"/", d>> >>,
      chat_type |-> {"private", "group"},
      permission |-> "all",
      is_at_required |-> FALSE,
      dependencies |->
          [i \in 1..Len(depnames) |->
              [name |-> depnames[i],
               min_version |-> IF profile.ranged THEN V_1_0 ELSE V_0_0_0,
               max_version |-> IF profile.ranged THEN V_2_0 ELSE NoMaxVersion]],
      core |-> IF hit /\ profile.defect \in {"missing_file", "no_handler"}
               THEN profile.defect ELSE "ok",
      handler_raises |-> FALSE,
      on_shutdown |-> IF hit /\ profile.defect = "hook_raises" THEN "raises"
                      ELSE IF d = "b" THEN "none" ELSE "ok" ]

PluginDirs ==
    {[d \in Dirs |-> Descriptor(d, g[d], p)] : g \in [Dirs -> DepLists], p \in Profiles}

DepNames(D, d) == [i \in 1..Len(D[d].dependencies) |-> D[d].dependencies[i].name]

(***************************************************************************)
(* PluginManager._scan_plugins_metadata (phase 1)                          *)
(***************************************************************************)
RECURSIVE ScanLoop(_, _, _)
\* 'for plugin_name in os.listdir(plugin_dir)', from position i.
\* st.order: the keys of plugins_meta in insertion order; st.graph: DEPENDENCY_GRAPH
\* st.execs: the directories whose __init__.py went through
\* spec.loader.exec_module.  The adapter.json branch calls json.load in a
\* module that never imports json, so its except branch leaves plugin_meta
\* None and every PLUGIN_META the scan obtains comes from an executed
\* __init__.py.
ScanLoop(D, i, st) ==
    IF i > Len(listdir) THEN st
    ELSE LET plugin_name == listdir[i] IN
         IF ~D[plugin_name].readable
         THEN ScanLoop(D, i + 1, st)                        \* continue
         ELSE ScanLoop(D, i + 1,
                  [order |-> Append(st.order, plugin_name),
                   graph |-> DictPut(st.graph, plugin_name, DepNames(D, plugin_name)),
                   execs |-> st.execs \cup {plugin_name}])

\* a mutant: the scan ends at the first directory whose descriptor is malformed
scan_plugins_metadata_stop(D) ==
    LET RECURSIVE L(_, _)
        L(i, st) ==
            IF i > Len(listdir) \/ ~D[listdir[i]].readable THEN st
            ELSE L(i + 1,
                   [order |-> Append(st.order, listdir[i]),
                    graph |-> DictPut(st.graph, listdir[i], DepNames(D, listdir[i])),
                    execs |-> st.execs \cup {listdir[i]}])
    IN  L(1, [order |-> <<>>, graph |-> EmptyDict, execs |-> {}])

scan_plugins_metadata(D) ==
    ScanLoop(D, 1, [order |-> <<>>, graph |-> EmptyDict, execs |-> {}])

(***************************************************************************)
(* PluginManager.check_plugin_dependencies                                 *)
(***************************************************************************)
\* a mutant: the upper bound of the version range is not compared
CheckDepsLoop_nomax(versions, dependencies, i) ==
    LET RECURSIVE L(_)
        L(k) == IF k > Len(dependencies) THEN [ok |-> TRUE, error |-> "none"]
                ELSE IF dependencies[k].name \notin DOMAIN versions
                THEN [ok |-> FALSE, error |-> "not_loaded"]
                ELSE IF compare_versions(versions[dependencies[k].name],
                                         dependencies[k].min_version) < 0
                THEN [ok |-> FALSE, error |-> "too_low"]
                ELSE L(k + 1)
    IN  L(i)

RECURSIVE CheckDepsLoop(_, _, _)
CheckDepsLoop(versions, dependencies, i) ==
    IF i > Len(dependencies) THEN [ok |-> TRUE, error |-> "none"]
    ELSE LET dep == dependencies[i] IN
         IF dep.name \notin DOMAIN versions
         THEN [ok |-> FALSE, error |-> "not_loaded"]
         ELSE IF compare_versions(versions[dep.name], dep.min_version) < 0
         THEN [ok |-> FALSE, error |-> "too_low"]
         ELSE IF dep.max_version # <<>>
                 /\ compare_versions(versions[dep.name], dep.max_version) > 0
         THEN [ok |-> FALSE, error |-> "too_high"]
         ELSE CheckDepsLoop(versions, dependencies, i + 1)

\* a mutant: the versions of the dependencies are not looked at
check_plugin_dependencies_unchecked(versions, dependencies) ==
    [ok |-> TRUE, error |-> "none"]

\* versions is LOADED_PLUGIN_VERSIONS
check_plugin_dependencies(versions, dependencies) ==
    CheckDepsLoop(versions, dependencies, 1)

(***************************************************************************)
(* PluginManager._load_plugins_by_dependency (phase 2)                     *)
(*                                                                         *)
(* st = [reg, versions, loaded, execs, ok]: PLUGIN_REGISTRY,               *)
(* LOADED_PLUGIN_VERSIONS, the local set 'loaded', the count of core       *)
(* module executions per plugin, and the value load_plugin returned.       *)
(***************************************************************************)
RegisteredPlugin(D, plugin_name) ==
    [ name |-> D[plugin_name].name,
      version |-> D[plugin_name].version,
      commands |-> D[plugin_name].commands,
      chat_type |-> D[plugin_name].chat_type,
      permission |-> D[plugin_name].permission,
      is_at_required |-> D[plugin_name].is_at_required,
      dependencies |-> D[plugin_name].dependencies,
      plugin_path |-> plugin_name,
      handler_raises |-> D[plugin_name].handler_raises,
      on_shutdown |-> D[plugin_name].on_shutdown ]

RECURSIVE load_plugin(_, _, _, _), LoadDepsLoop(_, _, _, _, _)

\* 'for dep in dependencies: if dep_name not in loaded: if not load_plugin(..)'
LoadDepsLoop(D, scanned, dependencies, i, st) ==
    IF i > Len(dependencies) THEN [st EXCEPT !.ok = TRUE]
    ELSE LET dep_name == dependencies[i].name IN
         IF dep_name \notin st.loaded
         THEN LET r == load_plugin(D, scanned, dep_name, st)
              IN  IF ~r.ok THEN r
                  ELSE LoadDepsLoop(D, scanned, dependencies, i + 1, r)
         ELSE LoadDepsLoop(D, scanned, dependencies, i + 1, st)

\* a mutant: the plugin is registered before its dependencies are loaded
load_plugin_eager(D, scanned, plugin_name, st) ==
    IF plugin_name \in st.loaded \/ plugin_name \notin scanned
    THEN [st EXCEPT !.ok = plugin_name \in st.loaded]
    ELSE LET st1 == [st EXCEPT
                       !.reg = Append(@, RegisteredPlugin(D, plugin_name)),
                       !.versions = DictPut(@, plugin_name, D[plugin_name].version),
                       !.loaded = @ \cup {plugin_name},
                       !.execs[plugin_name] = @ + 1]
         IN  LoadDepsLoop(D, scanned, D[plugin_name].dependencies, 1, st1)

\* a mutant: the version is recorded as soon as the dependencies are loaded,
\* before the core file and its handler are looked at
load_plugin_version_first(D, scanned, plugin_name, st) ==
    IF plugin_name \in st.loaded THEN [st EXCEPT !.ok = TRUE]
    ELSE IF plugin_name \notin scanned THEN [st EXCEPT !.ok = FALSE]
    ELSE LET st1 == LoadDepsLoop(D, scanned, D[plugin_name].dependencies, 1, st)
         IN  IF ~st1.ok THEN st1
             ELSE IF ~check_plugin_dependencies(st1.versions, D[plugin_name].dependencies).ok
             THEN [st1 EXCEPT !.ok = FALSE]
             ELSE IF D[plugin_name].core # "ok"
             THEN [st1 EXCEPT !.ok = FALSE,
                     !.versions = DictPut(@, plugin_name, D[plugin_name].version)]
             ELSE [st1 EXCEPT
                     !.reg = Append(@, RegisteredPlugin(D, plugin_name)),
                     !.versions = DictPut(@, plugin_name, D[plugin_name].version),
                     !.loaded = @ \cup {plugin_name},
                     !.execs[plugin_name] = @ + 1,
                     !.ok = TRUE]

load_plugin(D, scanned, plugin_name, st) ==
    IF plugin_name \in st.loaded THEN [st EXCEPT !.ok = TRUE]
    ELSE IF plugin_name \notin scanned THEN [st EXCEPT !.ok = FALSE]
    ELSE LET dependencies == D[plugin_name].dependencies
             st1 == LoadDepsLoop(D, scanned, dependencies, 1, st)
         IN  IF ~st1.ok THEN st1
             ELSE IF ~check_plugin_dependencies(st1.versions, dependencies).ok
             THEN [st1 EXCEPT !.ok = FALSE]
             ELSE IF D[plugin_name].core = "missing_file"
             THEN [st1 EXCEPT !.ok = FALSE]
             ELSE IF D[plugin_name].core # "ok"      \* the module ran, no handler
             THEN [st1 EXCEPT !.ok = FALSE, !.execs[plugin_name] = @ + 1]
             ELSE [st1 EXCEPT
                     !.reg = Append(@, RegisteredPlugin(D, plugin_name)),
                     !.versions = DictPut(@, plugin_name, D[plugin_name].version),
                     !.loaded = @ \cup {plugin_name},
                     !.execs[plugin_name] = @ + 1,
                     !.ok = TRUE]

\* a mutant: the loop over plugins_meta ends at the first plugin that fails
LoadAllLoop_stop(D, order, i, st) ==
    LET RECURSIVE L(_, _)
        L(k, t) == IF k > Len(order) \/ ~t.ok THEN t
                   ELSE IF order[k] \notin t.loaded
                   THEN L(k + 1, load_plugin(D, Range(order), order[k], t))
                   ELSE L(k + 1, t)
    IN  L(i, st)

RECURSIVE LoadAllLoop(_, _, _, _)
\* 'for plugin_name in plugins_meta: if plugin_name not in loaded: load_plugin(..)'
LoadAllLoop(D, order, i, st) ==
    IF i > Len(order) THEN st
    ELSE IF order[i] \notin st.loaded
         THEN LoadAllLoop(D, order, i + 1, load_plugin(D, Range(order), order[i], st))
         ELSE LoadAllLoop(D, order, i + 1, st)

load_plugins_by_dependency(D, order, execs) ==
    LoadAllLoop(D, order, 1,
        [reg |-> <<>>, versions |-> EmptyDict, loaded |-> {}, execs |-> execs,
         ok |-> TRUE])

(***************************************************************************)
(* PluginManager.init                                                      *)
(***************************************************************************)
RECURSIVE CycleCheckLoop(_, _, _)
\* 'for plugin_name in DEPENDENCY_GRAPH: if plugin_name not in VISITED: ...'.
\* VISITED is cleared and never added to; each start gets a fresh set() and [].
CycleCheckLoop(G, order, i) ==
    IF i > Len(order) THEN FALSE
    ELSE IF check_circular_dependency(G, order[i], {}, <<>>).found THEN TRUE
    ELSE CycleCheckLoop(G, order, i + 1)

HasCycle(G, order) == CycleCheckLoop(G, order, 1)

\* how many times init() may scan and load in one behaviour
MaxRounds == 1

\* init() past its '_initialized' test: the clears, the scan, the cycle check,
\* the load
PMInitRun ==
    /\ ~initialized
    /\ LET scan == scan_plugins_metadata(plugin_dir) IN
       /\ DEPENDENCY_GRAPH' = scan.graph
       /\ IF HasCycle(scan.graph, scan.order)
          THEN /\ PLUGIN_REGISTRY' = <<>>
               /\ LOADED_PLUGIN_VERSIONS' = EmptyDict
               /\ UNCHANGED <<initialized, module_execs>>
          ELSE LET st == load_plugins_by_dependency(plugin_dir, scan.order, module_execs)
               IN  /\ PLUGIN_REGISTRY' = st.reg
                   /\ LOADED_PLUGIN_VERSIONS' = st.versions
                   /\ module_execs' = st.execs
                   /\ initialized' = TRUE
    /\ pm_trace' = [pm_trace EXCEPT !.op = "init", !.inits = @ + 1,
                                   !.raised = FALSE, !.returned = "None",
                                   !.arg = "",
                                   !.scan_execs = scan_plugins_metadata(plugin_dir).execs]
    /\ UNCHANGED <<plugin_dir, shutdown_calls>>

PMInit ==
    /\ pm_trace.inits < MaxRounds
    /\ PMInitRun

\* init() on an initialized manager: logs a warning and returns
PMInitAgain ==
    /\ initialized
    /\ UNCHANGED pmVars

(***************************************************************************)
(* PluginManager.shutdown                                                  *)
(***************************************************************************)
\* a mutant: shutdown calls the hook outside any try block
hook_try_except_none(on_shutdown) ==
    IF on_shutdown = "raises" THEN "escaped" ELSE "returned"

\* 'try: ... shutdown_func() except Exception as e: logger.error(...)': what
\* becomes of one call of a hook
hook_try_except(on_shutdown) ==
    IF on_shutdown = "raises" THEN "caught" ELSE "returned"

RECURSIVE ShutdownLoop(_, _, _)
\* 'for plugin in PLUGIN_REGISTRY': a hook, if the core module has one, is
\* called; an exception it raises is caught and logged.
\* st = [calls, raised]: the calls made of each hook, and whether an exception
\* left the loop
ShutdownLoop(reg, i, st) ==
    IF i > Len(reg) THEN st
    ELSE IF reg[i].on_shutdown # "none"
         THEN IF hook_try_except(reg[i].on_shutdown) = "escaped"
              THEN [calls |-> [st.calls EXCEPT ![reg[i].plugin_path] = @ + 1],
                    raised |-> TRUE]
              ELSE ShutdownLoop(reg, i + 1,
                      [st EXCEPT !.calls[reg[i].plugin_path] = @ + 1])
         ELSE ShutdownLoop(reg, i + 1, st)

\* a mutant: the loop stops at the first plugin without a hook
ShutdownHooks_stop(reg, calls) ==
    LET RECURSIVE L(_, _)
        L(i, c) == IF i > Len(reg) \/ reg[i].on_shutdown = "none" THEN c
                   ELSE L(i + 1, [c EXCEPT ![reg[i].plugin_path] = @ + 1])
    IN  [calls |-> L(1, calls), raised |-> FALSE]

ShutdownHooks(reg, calls) == ShutdownLoop(reg, 1, [calls |-> calls, raised |-> FALSE])

\* a mutant: shutdown clears the registries and forgets the flag
ShutdownAfterLoop_keepflag(raised) ==
    IF raised
    THEN UNCHANGED <<PLUGIN_REGISTRY, LOADED_PLUGIN_VERSIONS, DEPENDENCY_GRAPH,
                     initialized>>
    ELSE /\ PLUGIN_REGISTRY' = <<>>
         /\ LOADED_PLUGIN_VERSIONS' = EmptyDict
         /\ DEPENDENCY_GRAPH' = EmptyDict
         /\ UNCHANGED initialized

\* the three clear() calls and '_initialized = False' run only when the loop
\* before them was left normally
ShutdownAfterLoop(raised) ==
    IF raised
    THEN UNCHANGED <<PLUGIN_REGISTRY, LOADED_PLUGIN_VERSIONS, DEPENDENCY_GRAPH,
                     initialized>>
    ELSE /\ PLUGIN_REGISTRY' = <<>>
         /\ LOADED_PLUGIN_VERSIONS' = EmptyDict
         /\ DEPENDENCY_GRAPH' = EmptyDict
         /\ initialized' = FALSE

ShutdownTrace(raised) ==
    pm_trace' = [pm_trace EXCEPT
                   !.op = "shutdown",
                   !.raised = raised,
                   !.returned = "None",
                   !.arg = "",
                   !.loaded = {PLUGIN_REGISTRY[i].plugin_path :
                                  i \in 1..Len(PLUGIN_REGISTRY)},
                   !.hooked = {PLUGIN_REGISTRY[i].plugin_path :
                                  i \in {j \in 1..Len(PLUGIN_REGISTRY) :
                                           PLUGIN_REGISTRY[j].on_shutdown # "none"}}]

ShutdownDone(hooks) ==
    /\ shutdown_calls' = hooks.calls
    /\ ShutdownAfterLoop(hooks.raised)
    /\ ShutdownTrace(hooks.raised)
    /\ UNCHANGED <<plugin_dir, module_execs>>

Shutdown == ShutdownDone(ShutdownHooks(PLUGIN_REGISTRY, shutdown_calls))

(***************************************************************************)
(* PluginManager.get_plugin_metadata                                       *)
(***************************************************************************)
RECURSIVE GetMetaLoop(_, _, _)
GetMetaLoop(reg, plugin_name, i) ==
    IF i > Len(reg) THEN NoneValue
    ELSE IF reg[i].name = plugin_name
         THEN [name |-> reg[i].name, version |-> reg[i].version,
               commands |-> reg[i].commands, chat_type |-> reg[i].chat_type,
               permission |-> reg[i].permission,
               dependencies |-> reg[i].dependencies,
               plugin_path |-> reg[i].plugin_path]
         ELSE GetMetaLoop(reg, plugin_name, i + 1)

get_plugin_metadata(reg, plugin_name) == GetMetaLoop(reg, plugin_name, 1)

(***************************************************************************)
(* Initial values of the parts a specification leaves alone                *)
(***************************************************************************)
PMIdlePluginDir ==
    [d \in Dirs |-> Descriptor(d, <<>>, [dir |-> "-", defect |-> "none", ranged |-> FALSE])]

PMIdle ==
    /\ plugin_dir = PMIdlePluginDir
    /\ PLUGIN_REGISTRY = <<>>
    /\ LOADED_PLUGIN_VERSIONS = EmptyDict
    /\ DEPENDENCY_GRAPH = EmptyDict
    /\ initialized = FALSE
    /\ shutdown_calls = [d \in Dirs |-> 0]
    /\ module_execs = [d \in Dirs |-> 0]
    /\ pm_trace = [op |-> "new", loaded |-> {}, hooked |-> {}, inits |-> 0, raised |-> FALSE,
                   returned |-> "None", arg |-> "", scan_execs |-> {}]

CcdIdle ==
    /\ ccd_start = "a"
    /\ ccd_result = [found |-> FALSE, cycle |-> <<>>, visited |-> {}, path |-> <<>>,
                     graph |-> EmptyDict, called |-> FALSE]

VerIdle ==
    /\ version1 = [text |-> <<>>, parts |-> <<>>]
    /\ version2 = [text |-> <<>>, parts |-> <<>>]
    /\ cmp_result = [called |-> FALSE, value |-> 0]

MatchIdle ==
    /\ match_input = [raw_msg |-> <<>>, chat_type |-> "private", sender_id |-> <<>>,
                      is_at_bot |-> FALSE]
    /\ match_result = [called |-> FALSE, index |-> 0]

RateIdle == clock = 0 /\ requests = EmptyDict /\ rate_history = <<>>

NoPermCheck ==
    [called |-> FALSE, user_id |-> <<>>, permission |-> "", listed |-> FALSE,
     role |-> "", allowed |-> FALSE]

SecIdle == blacklist = {} /\ audit_logs = <<>> /\ perm_check = NoPermCheck

MonIdle ==
    /\ plugin_stats = EmptyDict
    /\ message_stats = [total_received |-> 0, total_processed |-> 0,
                        total_errors |-> 0, response_times |-> <<>>]

\* the trace of the request served last; served is FALSE before the first one
NoTrace ==
    [ served |-> FALSE,
      request |-> [content_type |-> "", body |-> "", json_chars |-> 0,
                   longest_field |-> 0, remote_addr |-> <<>>, post_type |-> "",
                   message_type |-> "", user_id |-> <<>>, group_id |-> <<>>,
                   raw_message |-> <<>>, at_bot |-> FALSE],
      status |-> 0, retcode |-> 0, denial |-> "none", ip_check |-> <<>>,
      user_check |-> <<>>, handler_calls |-> <<>>, handled |-> FALSE,
      auto_reply_path |-> FALSE, sent |-> <<>> ]

GateIdle == gate_log = NoTrace

\* no call of record_plugin_execution observed, no thread inside a call
ThreadsIdle ==
    /\ stat_calls = <<>> /\ limiter_threads = <<>> /\ registry_threads = <<>>
    /\ audit_threads = <<>>

(***************************************************************************)
(* Spec: the plugin manager's life cycle over every plugin directory       *)
(***************************************************************************)
Init ==
    /\ plugin_dir \in PluginDirs
    /\ PLUGIN_REGISTRY = <<>>
    /\ LOADED_PLUGIN_VERSIONS = EmptyDict
    /\ DEPENDENCY_GRAPH = EmptyDict
    /\ initialized = FALSE
    /\ shutdown_calls = [d \in Dirs |-> 0]
    /\ module_execs = [d \in Dirs |-> 0]
    /\ pm_trace = [op |-> "new", loaded |-> {}, hooked |-> {}, inits |-> 0, raised |-> FALSE,
                   returned |-> "None", arg |-> "", scan_execs |-> {}]
    /\ CcdIdle /\ VerIdle /\ MatchIdle /\ RateIdle /\ SecIdle /\ MonIdle /\ GateIdle /\ ThreadsIdle

notPm == <<ccdVars, verVars, matchVars, rateVars, secVars, monVars, gate_log, threadVars>>

Next ==
    \/ PMInit /\ UNCHANGED notPm
    \/ Shutdown /\ UNCHANGED notPm

Spec == Init /\ [][Next]_vars


(***************************************************************************)
(* Properties of the dependency graph, stated without the code's search    *)
(***************************************************************************)
\* the names a graph G lists as dependencies of d (none when d is no key)
Succ(G, d) == IF d \in DOMAIN G THEN Range(G[d]) ELSE {}

RECURSIVE ReachFrom(_, _)
\* the names reachable from the set S in zero or more steps
ReachFrom(G, S) ==
    LET nxt == S \cup UNION {Succ(G, d) : d \in S}
    IN  IF nxt = S THEN S ELSE ReachFrom(G, nxt)

\* d lies on a cycle of G
OnCycle(G, d) == d \in ReachFrom(G, Succ(G, d))

\* some cycle of G can be reached from d
ReachesCycle(G, d) == \E e \in ReachFrom(G, {d}) : OnCycle(G, e)

Acyclic(G) == \A d \in DOMAIN G : ~OnCycle(G, d)

\* cyc = <<v0, ..., vk>> is a cycle of G: vk = v0, consecutive names are
\* joined by an edge of G, and v0 .. v(k-1) are distinct, so that its k edges
\* are the length of the cycle
IsCycleOf(G, cyc) ==
    /\ Len(cyc) >= 2
    /\ cyc[1] = cyc[Len(cyc)]
    /\ \A i \in 1..(Len(cyc) - 1) : cyc[i + 1] \in Succ(G, cyc[i])
    /\ IsDistinct(Front(cyc))

(***************************************************************************)
(* C1: for a plugin directory whose dependency graph is acyclic and whose  *)
(* plugins are all readable, bindable and version-compatible, init ends    *)
(* initialized with every plugin registered exactly once, each after all   *)
(* the plugins it declares as dependencies.                                *)
(***************************************************************************)
DiskGraph(D) == [d \in {e \in Dirs : D[e].readable} |-> DepNames(D, d)]

VersionInRange(version, dep) ==
    /\ compare_versions(version, dep.min_version) >= 0
    /\ dep.max_version = <<>> \/ compare_versions(version, dep.max_version) <= 0

AllLoadable(D) ==
    /\ \A d \in Dirs : D[d].readable /\ D[d].core = "ok"
    /\ Acyclic(DiskGraph(D))
    /\ \A d \in Dirs : \A i \in 1..Len(D[d].dependencies) :
          VersionInRange(D[D[d].dependencies[i].name].version, D[d].dependencies[i])

RegistryPaths == [i \in 1..Len(PLUGIN_REGISTRY) |-> PLUGIN_REGISTRY[i].plugin_path]

DependenciesFirst ==
    \A i \in 1..Len(PLUGIN_REGISTRY) :
        \A k \in 1..Len(PLUGIN_REGISTRY[i].dependencies) :
            \E j \in 1..(i - 1) :
                RegistryPaths[j] = PLUGIN_REGISTRY[i].dependencies[k].name

C1_TopologicalOrder ==
    (pm_trace.op = "init" /\ AllLoadable(plugin_dir)) =>
        /\ initialized
        /\ Range(RegistryPaths) = Dirs
        /\ IsDistinct(RegistryPaths)
        /\ DependenciesFirst

\* a chain a -> b -> c listed a, b, c is registered c, b, a
C1_Witness ==
    /\ pm_trace.op = "init"
    /\ AllLoadable(plugin_dir)
    /\ RegistryPaths = <<"c", "b", "a">>

(***************************************************************************)
(* SpecCcd: check_circular_dependency from every start over every graph    *)
(***************************************************************************)
\* The graphs: a, b and c each list up to MaxDeps distinct names, those among
\* a, b, c in any order and d last; d is no key of the graph (a name outside
\* the batch), or depends on nothing, or depends on a.
CcdNames == Dirs \cup {"d"}

CcdDepLists == DepLists \cup {Append(s, "d") : s \in {t \in DepLists : Len(t) < MaxDeps}}

CcdGraphs ==
    {g : g \in [Dirs -> CcdDepLists]}
    \cup {[x \in CcdNames |-> IF x = "d" THEN dl ELSE g[x]] :
             g \in [Dirs -> CcdDepLists], dl \in {<<>>, <<"a">>}}

InitCcd ==
    /\ PMIdle /\ VerIdle /\ MatchIdle /\ RateIdle /\ SecIdle /\ MonIdle /\ GateIdle /\ ThreadsIdle
    /\ ccd_start \in Dirs
    /\ ccd_result \in {[found |-> FALSE, cycle |-> <<>>, visited |-> {}, path |-> <<>>,
                        graph |-> g, called |-> FALSE] : g \in CcdGraphs}

RunCcd ==
    /\ ~ccd_result.called
    /\ LET r == check_circular_dependency(ccd_result.graph, ccd_start, {}, <<>>)
       IN  ccd_result' = [found |-> r.found, cycle |-> r.cycle, visited |-> r.visited,
                          path |-> r.path, graph |-> ccd_result.graph, called |-> TRUE]
    /\ UNCHANGED <<ccd_start, pmVars, verVars, matchVars, rateVars, secVars,
                   monVars, gate_log, threadVars>>

SpecCcd == InitCcd /\ [][RunCcd]_vars

(***************************************************************************)
(* C2: check_circular_dependency returns True exactly when a cycle can be  *)
(* reached from the start plugin; the cycle it then reports begins and     *)
(* ends with the same plugin and its edges are a cycle of the graph, as    *)
(* many as the plugins on it; on an acyclic graph it returns False.        *)
(***************************************************************************)
C2_CycleReported ==
    ccd_result.called =>
        /\ ccd_result.found <=> ReachesCycle(ccd_result.graph, ccd_start)
        /\ ccd_result.found =>
              /\ IsCycleOf(ccd_result.graph, ccd_result.cycle)
              /\ Len(ccd_result.cycle) - 1 = Cardinality(Range(ccd_result.cycle))
              /\ Range(ccd_result.cycle) \subseteq ReachFrom(ccd_result.graph, {ccd_start})
        /\ Acyclic(ccd_result.graph) => ~ccd_result.found /\ ccd_result.cycle = <<>>

\* a -> b -> c -> d -> a searched from b: the cycle is reported from b to b
C2_Witness ==
    /\ ccd_result.called
    /\ ccd_start = "b"
    /\ ccd_result.found
    /\ ccd_result.cycle = <<"b", "c", "d", "a", "b">>


(***************************************************************************)
(* SpecVer: compare_versions over version strings                          *)
(*                                                                         *)
(* A version string is written from a list of integer components: an       *)
(* optional "v", then the components in decimal joined by ".".             *)
(***************************************************************************)
MaxParts == 2

Components == {0, 2, 10}

PartLists == UNION {[1..n -> Components] : n \in 0..MaxParts}

DigitChar(n) ==
    CASE n = 0 -> "0" [] n = 1 -> "1" [] n = 2 -> "2" [] n = 3 -> "3"
      [] n = 4 -> "4" [] n = 5 -> "5" [] n = 6 -> "6" [] n = 7 -> "7"
      [] n = 8 -> "8" [] n = 9 -> "9"

RECURSIVE Decimal(_)
Decimal(n) == IF n < 10 THEN <<DigitChar(n)>>
              ELSE Append(Decimal(n \div 10), DigitChar(n % 10))

RECURSIVE JoinDots(_, _)
JoinDots(parts, i) ==
    IF i > Len(parts) THEN <<>>
    ELSE (IF i > 1 THEN <<".">> ELSE <<>>) \o Decimal(parts[i]) \o JoinDots(parts, i + 1)

VersionText(prefix, parts) == prefix \o JoinDots(parts, 1)

VersionInputs ==
    {[text |-> VersionText(pre, xs), parts |-> xs] :
        pre \in {<<>>, <<"v">>}, xs \in PartLists}

InitVer ==
    /\ PMIdle /\ CcdIdle /\ MatchIdle /\ RateIdle /\ SecIdle /\ MonIdle /\ GateIdle /\ ThreadsIdle
    /\ version1 \in VersionInputs
    /\ version2 \in VersionInputs
    /\ cmp_result = [called |-> FALSE, value |-> 0]

CompareVersions ==
    /\ ~cmp_result.called
    /\ cmp_result' = [called |-> TRUE,
                      value |-> compare_versions(version1.text, version2.text)]
    /\ UNCHANGED <<version1, version2, pmVars, ccdVars, matchVars, rateVars,
                   secVars, monVars, gate_log, threadVars>>

SpecVer == InitVer /\ [][CompareVersions]_vars

\* component-wise comparison of two lists of integers, the shorter one
\* continued with zeros: decided by the first position where they differ
ComponentAt(xs, i) == IF i <= Len(xs) THEN xs[i] ELSE 0

ComponentwiseCompare(xs, ys) ==
    LET differ == {i \in 1..Max(Len(xs), Len(ys)) :
                      ComponentAt(xs, i) # ComponentAt(ys, i)}
    IN  IF differ = {} THEN 0
        ELSE LET k == CHOOSE i \in differ : \A j \in differ : i <= j
             IN  IF ComponentAt(xs, k) > ComponentAt(ys, k) THEN 1 ELSE -1

(***************************************************************************)
(* C3: compare_versions returns -1, 0 or 1; it is the component-wise       *)
(* integer comparison of the two versions, the shorter one padded with     *)
(* zeros; compare(a,b) = -compare(b,a); it is transitive; and              *)
(* compare("1.2","1.2.0") = 0, compare("2.0","1.9.9") > 0.                 *)
(***************************************************************************)
C3_VersionOrder ==
    cmp_result.called =>
        /\ cmp_result.value \in {-1, 0, 1}
        /\ cmp_result.value = ComponentwiseCompare(version1.parts, version2.parts)
        /\ cmp_result.value = 0 - compare_versions(version2.text, version1.text)
        /\ \A c \in VersionInputs :
              (cmp_result.value <= 0 /\ compare_versions(version2.text, c.text) <= 0)
                  => compare_versions(version1.text, c.text) <= 0
        /\ compare_versions(<<"1", ".", "2">>, V_1_2_0) = 0
        /\ compare_versions(V_2_0, <<"1", ".", "9", ".", "9">>) > 0

\* "v2" against "2.0": equal although the texts differ in prefix and length
C3_Witness ==
    /\ cmp_result.called
    /\ cmp_result.value = 0
    /\ version1.text = <<"v", "2">>
    /\ version2.text = <<"2", ".", "0">>


(***************************************************************************)
(* PluginManager.get_matched_plugin                                        *)
(*                                                                         *)
(* The method returns one of the dicts of PLUGIN_REGISTRY or None; the     *)
(* operator returns the position of that dict in the list, 0 for None.     *)
(***************************************************************************)
\* config.py: master_qq, default "192004908"
MASTER_QQ == <<"1", "9", "2", "0", "0", "4", "9", "0", "8">>

\* a mutant: the trigger must start the message
IsSubstring_prefix(cmd, text) ==
    Len(cmd) <= Len(text) /\ SubSeq(text, 1, Len(cmd)) = cmd

\* Python's 'cmd in text' on strings
IsSubstring(cmd, text) ==
    \E i \in 0..(Len(text) - Len(cmd)) : SubSeq(text, i + 1, i + Len(cmd)) = cmd

\* 1. 'if chat_type not in plugin["chat_type"]: continue'
SkipScene(plugin, chat_type) == chat_type \notin plugin.chat_type

\* a mutant: the permission filter is missing
SkipPermission_none(plugin, sender_id) == FALSE

\* 2. 'if plugin["permission"] == "master" and str(sender_id) != str(MASTER_QQ)'
SkipPermission(plugin, sender_id) ==
    plugin.permission = "master" /\ sender_id # MASTER_QQ

\* a mutant: the mention filter does not look at the chat type
SkipMention_anyscope(plugin, chat_type, is_at_bot) ==
    plugin.is_at_required /\ ~is_at_bot

\* 3. 'if chat_type == "group" and plugin.get("is_at_required", False)
\*        and not is_at_bot'
SkipMention(plugin, chat_type, is_at_bot) ==
    chat_type = "group" /\ plugin.is_at_required /\ ~is_at_bot

\* 4. '[cmd for cmd in plugin["commands"] if cmd in raw_msg]'
matched_cmd(plugin, raw_msg) ==
    SelectSeq(plugin.commands, LAMBDA cmd : IsSubstring(cmd, raw_msg))

RECURSIVE MatchLoop(_, _, _, _, _, _)
\* 'for plugin in PLUGIN_REGISTRY', from position i
MatchLoop(reg, i, raw_msg, chat_type, sender_id, is_at_bot) ==
    IF i > Len(reg) THEN 0
    ELSE IF SkipScene(reg[i], chat_type)
         THEN MatchLoop(reg, i + 1, raw_msg, chat_type, sender_id, is_at_bot)
    ELSE IF SkipPermission(reg[i], sender_id)
         THEN MatchLoop(reg, i + 1, raw_msg, chat_type, sender_id, is_at_bot)
    ELSE IF SkipMention(reg[i], chat_type, is_at_bot)
         THEN MatchLoop(reg, i + 1, raw_msg, chat_type, sender_id, is_at_bot)
    ELSE IF matched_cmd(reg[i], raw_msg) # <<>>
         THEN i
    ELSE MatchLoop(reg, i + 1, raw_msg, chat_type, sender_id, is_at_bot)

get_matched_plugin(reg, raw_msg, chat_type, sender_id, is_at_bot) ==
    MatchLoop(reg, 1, raw_msg, chat_type, sender_id, is_at_bot)

(***************************************************************************)
(* SpecMatch: get_matched_plugin over registries and inbound messages      *)
(***************************************************************************)
MaxRegistry == 2

GUEST_QQ == <<"1", "0", "0", "0", "1">>

foo == <<"f", "o", "o">>
Foo == <<"F", "o", "o">>
bar == <<"b", "a", "r">>
say_foo_please ==
    <<"s", "a", "y", " ", "f", "o", "o", " ", "p", "l", "e", "a", "s", "e">>

MatchCommandLists == {<<foo>>, <<Foo, bar>>}

MatchMessages == {say_foo_please, bar, Foo, <<"f", "o">>}

\* a registry entry with the fields the matcher reads
MatchPlugin(scopes, perm, at, cmds) ==
    [ name |-> "p", version |-> V_1_0, commands |-> cmds, chat_type |-> scopes,
      permission |-> perm, is_at_required |-> at, dependencies |-> <<>>,
      plugin_path |-> "p", handler_raises |-> FALSE, on_shutdown |-> "none" ]

MatchPlugins ==
    {MatchPlugin(sc, pm, at, cm) :
        sc \in {{"private"}, {"group"}, {"private", "group"}},
        pm \in {"all", "master"}, at \in BOOLEAN, cm \in MatchCommandLists}

MatchRegistries == UNION {[1..n -> MatchPlugins] : n \in 0..MaxRegistry}

MatchInputs ==
    [raw_msg : MatchMessages, chat_type : {"private", "group"},
     sender_id : {MASTER_QQ, GUEST_QQ}, is_at_bot : BOOLEAN]

InitMatch ==
    /\ plugin_dir = PMIdlePluginDir
    /\ PLUGIN_REGISTRY \in MatchRegistries
    /\ LOADED_PLUGIN_VERSIONS = EmptyDict
    /\ DEPENDENCY_GRAPH = EmptyDict
    /\ initialized = TRUE
    /\ shutdown_calls = [d \in Dirs |-> 0]
    /\ module_execs = [d \in Dirs |-> 0]
    /\ pm_trace = [op |-> "new", loaded |-> {}, hooked |-> {}, inits |-> 0, raised |-> FALSE,
                   returned |-> "None", arg |-> "", scan_execs |-> {}]
    /\ match_input \in MatchInputs
    /\ match_result = [called |-> FALSE, index |-> 0]
    /\ CcdIdle /\ VerIdle /\ RateIdle /\ SecIdle /\ MonIdle /\ GateIdle /\ ThreadsIdle

GetMatchedPlugin ==
    /\ ~match_result.called
    /\ match_result' =
          [called |-> TRUE,
           index |-> get_matched_plugin(PLUGIN_REGISTRY, match_input.raw_msg,
                        match_input.chat_type, match_input.sender_id,
                        match_input.is_at_bot)]
    /\ UNCHANGED <<match_input, pmVars, ccdVars, verVars, rateVars, secVars,
                   monVars, gate_log, threadVars>>

SpecMatch == InitMatch /\ [][GetMatchedPlugin]_vars

(***************************************************************************)
(* C4: a plugin whose permission class is master is never returned for a   *)
(* caller id other than the configured master id.                          *)
(***************************************************************************)
C4_MasterOnly ==
    (match_result.called /\ match_result.index # 0
        /\ PLUGIN_REGISTRY[match_result.index].permission = "master")
    => match_input.sender_id = MASTER_QQ

\* a guest's message skips a matching master-only plugin and gets the next one
C4_Witness ==
    /\ match_result.called
    /\ match_input.sender_id = GUEST_QQ
    /\ match_result.index = 2
    /\ PLUGIN_REGISTRY[1].permission = "master"
    /\ PLUGIN_REGISTRY[1].chat_type = {"private", "group"}
    /\ ~PLUGIN_REGISTRY[1].is_at_required
    /\ PLUGIN_REGISTRY[1].commands = <<foo>>
    /\ match_input.raw_msg = say_foo_please

(***************************************************************************)
(* C5: the plugin returned is the first one, in registration order, that   *)
(* passes the four filters (scope, master-only, mention in group, a        *)
(* trigger occurring in the raw text, case-sensitive); None is returned    *)
(* exactly when no registered plugin passes them.                          *)
(***************************************************************************)
\* t occurs in text: some run of consecutive characters of text spells t
OccursIn(t, text) ==
    \E start \in 1..(Len(text) + 1) :
        /\ start + Len(t) - 1 <= Len(text)
        /\ \A j \in 1..Len(t) : text[start + j - 1] = t[j]

PassesFilters(plugin, in) ==
    /\ in.chat_type \in plugin.chat_type
    /\ plugin.permission = "master" => in.sender_id = MASTER_QQ
    /\ (in.chat_type = "group" /\ plugin.is_at_required) => in.is_at_bot
    /\ \E k \in 1..Len(plugin.commands) : OccursIn(plugin.commands[k], in.raw_msg)

C5_FirstMatch ==
    match_result.called =>
        LET passing == {i \in 1..Len(PLUGIN_REGISTRY) :
                           PassesFilters(PLUGIN_REGISTRY[i], match_input)}
        IN  /\ match_result.index = 0 <=> passing = {}
            /\ match_result.index # 0 =>
                  /\ match_result.index \in passing
                  /\ \A i \in passing : match_result.index <= i

\* the example of the specification: A with trigger "foo", both scopes, for
\* all, no mention, and "say foo please" sent to a group without a mention,
\* with a second plugin registered after A that passes as well
C5_Witness ==
    /\ match_result.called
    /\ match_result.index = 1
    /\ Len(PLUGIN_REGISTRY) = 2
    /\ PLUGIN_REGISTRY[1] = MatchPlugin({"private", "group"}, "all", FALSE, <<foo>>)
    /\ PassesFilters(PLUGIN_REGISTRY[2], match_input)
    /\ match_input.raw_msg = say_foo_please
    /\ match_input.chat_type = "group"
    /\ ~match_input.is_at_bot

(***************************************************************************)
(* C6: in group scope a plugin that requires a mention is never returned   *)
(* when the bot was not mentioned; in private scope neither the plugins'   *)
(* mention requirement nor the mention flag changes the result.            *)
(***************************************************************************)
NoMentionRequired(reg) == [i \in 1..Len(reg) |-> [reg[i] EXCEPT !.is_at_required = FALSE]]

C6_MentionInGroup ==
    match_result.called =>
        /\ (match_input.chat_type = "group" /\ ~match_input.is_at_bot
               /\ match_result.index # 0)
           => ~PLUGIN_REGISTRY[match_result.index].is_at_required
        /\ match_input.chat_type = "private" =>
              \A at \in BOOLEAN :
                 match_result.index =
                    get_matched_plugin(NoMentionRequired(PLUGIN_REGISTRY),
                        match_input.raw_msg, "private", match_input.sender_id, at)

\* a private message without a mention is answered by a plugin that requires one
C6_Witness ==
    /\ match_result.called
    /\ match_input.chat_type = "private"
    /\ ~match_input.is_at_bot
    /\ match_result.index = 1
    /\ PLUGIN_REGISTRY[1].is_at_required


(***************************************************************************)
(* RateLimiter.check_rate_limit                                            *)
(*                                                                         *)
(* time.time() is the variable clock, in whole seconds.  The method        *)
(* mutates self.requests and returns (allowed, message); the operator      *)
(* returns both and the new self.requests.                                 *)
(***************************************************************************)
max_requests_per_minute == 60
max_requests_per_hour == 1000
HOUR_SECONDS == 3600
MINUTE_SECONDS == 60

\* a mutant: a request exactly one minute old still counts
minute_requests_inclusive(kept, current_time) ==
    SelectSeq(kept, LAMBDA t : current_time - t <= MINUTE_SECONDS)

\* '[t for t in self.requests[key] if current_time - t < 60]'
minute_requests(kept, current_time) ==
    SelectSeq(kept, LAMBDA t : current_time - t < MINUTE_SECONDS)

\* a mutant: a denied request is recorded like an allowed one
check_rate_limit_countdenied(reqs, key, current_time) ==
    LET known == IF key \in DOMAIN reqs THEN reqs ELSE DictPut(reqs, key, <<>>)
        kept == SelectSeq(known[key], LAMBDA t : current_time - t < HOUR_SECONDS)
        recorded == DictPut(known, key, Append(kept, current_time))
    IN  IF Len(minute_requests(kept, current_time)) >= max_requests_per_minute
        THEN [allowed |-> FALSE, message |-> "per_minute", requests |-> recorded]
        ELSE IF Len(kept) >= max_requests_per_hour
        THEN [allowed |-> FALSE, message |-> "per_hour", requests |-> recorded]
        ELSE [allowed |-> TRUE, message |-> "none", requests |-> recorded]

\* a mutant: the hour's limit is not tested
check_rate_limit_nohour(reqs, key, current_time) ==
    LET known == IF key \in DOMAIN reqs THEN reqs ELSE DictPut(reqs, key, <<>>)
        kept == SelectSeq(known[key], LAMBDA t : current_time - t < HOUR_SECONDS)
        pruned == DictPut(known, key, kept)
    IN  IF Len(minute_requests(kept, current_time)) >= max_requests_per_minute
        THEN [allowed |-> FALSE, message |-> "per_minute", requests |-> pruned]
        ELSE [allowed |-> TRUE, message |-> "none",
              requests |-> DictPut(pruned, key, Append(kept, current_time))]

check_rate_limit(reqs, key, current_time) ==
    LET known == IF key \in DOMAIN reqs THEN reqs ELSE DictPut(reqs, key, <<>>)
        kept == SelectSeq(known[key], LAMBDA t : current_time - t < HOUR_SECONDS)
        pruned == DictPut(known, key, kept)
    IN  IF Len(minute_requests(kept, current_time)) >= max_requests_per_minute
        THEN [allowed |-> FALSE, message |-> "per_minute", requests |-> pruned]
        ELSE IF Len(kept) >= max_requests_per_hour
        THEN [allowed |-> FALSE, message |-> "per_hour", requests |-> pruned]
        ELSE [allowed |-> TRUE, message |-> "none",
              requests |-> DictPut(pruned, key, Append(kept, current_time))]

(***************************************************************************)
(* SpecRate: one key calling the limiter while the clock advances          *)
(***************************************************************************)
MaxCalls == 62

Instants == {0, 59, 60}

RateKey == <<"u", "s", "e", "r", "_">> \o GUEST_QQ

InitRate ==
    /\ PMIdle /\ CcdIdle /\ VerIdle /\ MatchIdle /\ SecIdle /\ MonIdle /\ GateIdle /\ ThreadsIdle
    /\ clock = 0
    /\ requests = EmptyDict
    /\ rate_history = <<>>

notRate == <<pmVars, ccdVars, verVars, matchVars, secVars, monVars, gate_log, threadVars>>

\* time passes between two calls
Tick ==
    /\ \E t \in Instants : t > clock /\ clock' = t
    /\ UNCHANGED <<requests, rate_history, notRate>>

CheckRateLimit ==
    /\ Len(rate_history) < MaxCalls
    /\ LET r == check_rate_limit(requests, RateKey, clock)
       IN  /\ requests' = r.requests
           /\ rate_history' = Append(rate_history,
                  [key |-> RateKey, time |-> clock, allowed |-> r.allowed,
                   message |-> r.message])
    /\ UNCHANGED <<clock, notRate>>

NextRate == Tick \/ CheckRateLimit

SpecRate == InitRate /\ [][NextRate]_vars

(***************************************************************************)
(* C7: for one key, 60 requests within 60 seconds are all allowed; the     *)
(* 61st request within the same 60-second window is denied; once the clock *)
(* is 60 seconds or more past the first request, a further request is      *)
(* allowed again.                                                          *)
(***************************************************************************)
AllowedBefore(i) == Cardinality({j \in 1..(i - 1) : rate_history[j].allowed})

C7_MinuteWindow ==
    \A i \in 1..Len(rate_history) :
        LET first == rate_history[1].time
            now == rate_history[i].time
        IN  /\ (i <= 60 /\ now - first < 60) => rate_history[i].allowed
            /\ (AllowedBefore(i) = 60 /\ now - first < 60) => ~rate_history[i].allowed
            /\ (AllowedBefore(i) = 60 /\ now - first >= 60) => rate_history[i].allowed

\* 60 requests allowed (the first at 0, the last at 59), the 61st denied at
\* 59, and a request at 60 allowed
C7_Witness ==
    /\ Len(rate_history) = 62
    /\ \A i \in 1..60 : rate_history[i].allowed
    /\ rate_history[1].time = 0 /\ rate_history[60].time = 59
    /\ rate_history[61].time = 59 /\ ~rate_history[61].allowed
    /\ rate_history[61].message = "per_minute"
    /\ rate_history[62].time = 60 /\ rate_history[62].allowed


(***************************************************************************)
(* Text helpers.  A Python str is a sequence of one-character strings; a   *)
(* character outside ASCII is written by its pinyin ("guan" for the first  *)
(* character of the about command).                                        *)
(***************************************************************************)
Whitespace == {" ", "\t", "\n"}

RECURSIVE LStrip(_)
LStrip(text) ==
    IF text # <<>> /\ Head(text) \in Whitespace THEN LStrip(Tail(text)) ELSE text

RECURSIVE RStrip(_)
RStrip(text) ==
    IF text # <<>> /\ text[Len(text)] \in Whitespace THEN RStrip(Front(text)) ELSE text

\* str.strip()
Strip(text) == RStrip(LStrip(text))

RECURSIVE Concat(_)
\* ''.join(parts)
Concat(parts) == IF parts = <<>> THEN <<>> ELSE Head(parts) \o Concat(Tail(parts))

UpperLetters ==
    <<"A", "B", "C", "D", "E", "F", "G", "H", "I", "J", "K", "L", "M",
      "N", "O", "P", "Q", "R", "S", "T", "U", "V", "W", "X", "Y", "Z">>

LowerLetters ==
    <<"a", "b", "c", "d", "e", "f", "g", "h", "i", "j", "k", "l", "m",
      "n", "o", "p", "q", "r", "s", "t", "u", "v", "w", "x", "y", "z">>

\* re.IGNORECASE: both sides compared in lower case
LowerText(text) ==
    [i \in 1..Len(text) |->
        IF text[i] \in Range(UpperLetters)
        THEN LowerLetters[IndexOf(UpperLetters, text[i], 1)] ELSE text[i]]

(***************************************************************************)
(* InputValidator                                                          *)
(***************************************************************************)
\* the double quote character
DoubleQuote == "quot"

\* the backtick character
Backtick == "backtick"

\* re.match(r'^[1-9]\d{4,14}$', user_id)
is_valid_qq(user_id) ==
    /\ Len(user_id) >= 5 /\ Len(user_id) <= 15
    /\ user_id[1] \in Digits \ {"0"}
    /\ \A i \in 2..Len(user_id) : user_id[i] \in Digits

html_escape_table(c) ==
    CASE c = "&" -> <<"&", "a", "m", "p", ";">>
      [] c = "<" -> <<"&", "l", "t", ";">>
      [] c = ">" -> <<"&", "g", "t", ";">>
      [] c = DoubleQuote -> <<"&", "q", "u", "o", "t", ";">>
      [] c = "'" -> <<"&", "#", "3", "9", ";">>
      [] c = "/" -> <<"&", "#", "4", "7", ";">>
      [] OTHER -> <<c>>

RECURSIVE SplitWords(_, _, _)
\* content.split(): the maximal runs of characters that are not whitespace
SplitWords(text, words, cur) ==
    IF text = <<>> THEN (IF cur = <<>> THEN words ELSE Append(words, cur))
    ELSE IF Head(text) \in Whitespace
         THEN SplitWords(Tail(text), IF cur = <<>> THEN words ELSE Append(words, cur), <<>>)
    ELSE SplitWords(Tail(text), words, Append(cur, Head(text)))

RECURSIVE JoinSpaces(_)
\* ' '.join(words)
JoinSpaces(words) ==
    IF words = <<>> THEN <<>>
    ELSE IF Len(words) = 1 THEN words[1]
    ELSE words[1] \o <<" ">> \o JoinSpaces(Tail(words))

SANITIZE_MAX_LENGTH == 1000

\* InputValidator.sanitize_input: cut to max_length, escape, drop control
\* characters (Whitespace holds the only ones modelled; a space is kept),
\* collapse whitespace
sanitize_input(content) ==
    LET cut == IF Len(content) > SANITIZE_MAX_LENGTH
               THEN SubSeq(content, 1, SANITIZE_MAX_LENGTH) ELSE content
        escaped == Concat([i \in 1..Len(cut) |-> html_escape_table(cut[i])])
        printable == SelectSeq(escaped, LAMBDA c : c \notin {"\t", "\n"})
    IN  JoinSpaces(SplitWords(printable, <<>>, <<>>))


(***************************************************************************)
(* SecurityManager                                                         *)
(***************************************************************************)
\* after sanitize_input every run of whitespace is one space, so a run of whitespace in a pattern is one space
dangerous_commands ==
    { <<"r", "m", " ", "-", "r", "f">>, <<"s", "h", "u", "t", "d", "o", "w", "n">>, <<"i", "n", "i", "t", " ", "0">>, <<"r", "e", "b", "o", "o", "t">>,
      <<"m", "k", "f", "s">>, <<"m", "k", "e", "2", "f", "s">>, <<"c", "h", "m", "o", "d", " ", "7", "7", "7">>, <<"s", "u", "d", "o", " ", "s", "u">> }

\* the pattern dd, whitespace, if=, anything, of=
MatchesDd(text) ==
    \E i \in 1..Len(text) :
        /\ i + 5 <= Len(text)
        /\ SubSeq(text, i, i + 5) = <<"d", "d", " ", "i", "f", "=">>
        /\ IsSubstring(<<"o", "f", "=">>, SubSeq(text, i + 6, Len(text)))

\* sensitive_pattern
SensitiveChars == {";", "&", "|", "$", "<", ">", "'", DoubleQuote, Backtick}

NonWordChars ==
    Whitespace \cup SensitiveChars \cup
    {"/", "#", "-", "=", ".", ",", ":", "!", "?", "(", ")", "@", "+", "*"}

\* the word w stands in text at position i, between two word boundaries
WordAt(text, wd, i) ==
    /\ i + Len(wd) - 1 <= Len(text)
    /\ SubSeq(text, i, i + Len(wd) - 1) = wd
    /\ i = 1 \/ text[i - 1] \in NonWordChars
    /\ i + Len(wd) - 1 = Len(text) \/ text[i + Len(wd)] \in NonWordChars

SqlVerbs == {<<"s", "e", "l", "e", "c", "t">>, <<"i", "n", "s", "e", "r", "t">>, <<"u", "p", "d", "a", "t", "e">>, <<"d", "e", "l", "e", "t", "e">>, <<"d", "r", "o", "p">>, <<"t", "r", "u", "n", "c", "a", "t", "e">>, <<"a", "l", "t", "e", "r">>}

SqlObjects == {<<"f", "r", "o", "m">>, <<"i", "n", "t", "o">>, <<"t", "a", "b", "l", "e">>, <<"d", "a", "t", "a", "b", "a", "s", "e">>}

\* the four sql_patterns; the last one needs a semicolon, which the sensitive
\* pattern has already refused
MatchesSql(text) ==
    \/ \E v \in SqlVerbs, o \in SqlObjects, i, j \in 1..Len(text) :
          j >= i + Len(v) /\ WordAt(text, v, i) /\ WordAt(text, o, j)
    \/ \E i \in 1..Len(text) : WordAt(text, <<"u", "n", "i", "o", "n", " ", "s", "e", "l", "e", "c", "t">>, i)
    \/ IsSubstring(<<"-", "-">>, text) \/ IsSubstring(<<"#">>, text)
    \/ \E i \in 1..Len(text) :
          /\ text[i] = ";"
          /\ \E j \in (i + 1)..Len(text) :
                /\ text[j] \in Range(LowerLetters)
                /\ \A k \in (i + 1)..(j - 1) : text[k] \in Whitespace

\* SecurityManager.filter_dangerous_content: is_safe
filter_dangerous_content(content) ==
    LET clean == sanitize_input(content)
        lower == LowerText(clean)
    IN  /\ \A pattern \in dangerous_commands : ~IsSubstring(pattern, lower)
        /\ ~MatchesDd(lower)
        /\ \A i \in 1..Len(clean) : clean[i] \notin SensitiveChars
        /\ ~MatchesSql(lower)

COMMAND_MAX_LENGTH == 200

\* SecurityManager.validate_command
validate_command(command) ==
    IF Len(command) > COMMAND_MAX_LENGTH THEN FALSE
    ELSE IF ~filter_dangerous_content(command) THEN FALSE
    ELSE TRUE

\* config 'self_qq' is not a registered key: config_manager.get gives ''
ROBOT_QQ == <<"1", "9", "7", "2", "6", "9", "3", "0", "8", "2">>

\* the keys of the ConfigItems that core/config.py registers
config_items ==
    {"napcat_http_url", "robot_qq", "callback_port", "master_qq", "bot_version",
     "log_encoding", "openai_api_key", "openai_model", "openai_api_base",
     "openai_default_character", "auto_replies", "debug_mode", "log_level"}

\* config.json: a deployment that names the bot's own id under self_qq
CONFIG_FILE == [self_qq |-> ROBOT_QQ]

ConfigDefault(key) ==
    CASE key = "master_qq" -> MASTER_QQ
      [] key = "robot_qq" -> ROBOT_QQ

\* ConfigManager.load and ConfigManager.get: only registered items get a
\* value (from the file, else their default); any other key yields 'default'
config_get(key, default) ==
    IF key \in config_items
    THEN IF key \in DOMAIN CONFIG_FILE THEN CONFIG_FILE[key] ELSE ConfigDefault(key)
    ELSE default

\* config_manager.get('self_qq', '')
SELF_QQ == config_get("self_qq", <<>>)

\* SecurityManager.get_user_role, user_roles = {str(master_qq): MASTER}
get_user_role(user_id) ==
    IF MASTER_QQ # <<>> /\ user_id = MASTER_QQ THEN "master"
    ELSE IF SELF_QQ # <<>> /\ user_id = SELF_QQ THEN "self"
    ELSE "guest"

role_permissions(role) ==
    CASE role = "guest" -> {"basic_query"}
      [] role = "self" -> {"basic_query", "use_plugins"}
      [] role = "master" -> {"basic_query", "use_plugins", "manage_plugins", "system_admin"}

\* a mutant: the role is looked at before the blacklist, which then no longer
\* binds the master
check_permission_master_first(bl, user_id, permission) ==
    IF ~is_valid_qq(user_id) THEN FALSE
    ELSE IF get_user_role(user_id) = "master" THEN TRUE
    ELSE IF user_id \in bl THEN FALSE
    ELSE permission \in role_permissions(get_user_role(user_id))

\* SecurityManager.check_permission: the first component of the result
check_permission(bl, user_id, permission) ==
    IF ~is_valid_qq(user_id) THEN FALSE
    ELSE IF user_id \in bl THEN FALSE
    ELSE permission \in role_permissions(get_user_role(user_id))

public_plugins == {"general", "help", "weather"}

\* SecurityManager.validate_plugin_access
validate_plugin_access(bl, plugin_name, user_id) ==
    IF check_permission(bl, user_id, "manage_plugins") THEN TRUE
    ELSE IF plugin_name \in public_plugins THEN TRUE
    ELSE TRUE

AUDIT_LOG_LIMIT == 1000

\* None as the resource of an audit entry
NoResource == "<None>"

\* a mutant: the oldest 1000 entries are kept
log_audit_event_oldest(logs, now, user_id, action, resource, success, event_type, details) ==
    IF Len(logs) >= AUDIT_LOG_LIMIT THEN logs
    ELSE Append(logs, [timestamp |-> now, user_id |-> user_id,
                       role |-> get_user_role(user_id), action |-> action,
                       resource |-> resource, success |-> success,
                       ip_address |-> "N/A"])

\* the details the dispatcher passes with a plugin execution (handler.py 224,
\* 237), of which the model keeps the elapsed time
ExecutionDetails(plugin_execution_time) == [execution_time |-> plugin_execution_time]

\* SecurityManager.log_audit_event: the new audit_logs.  event_type and
\* details are parameters the body never reads.
log_audit_event(logs, now, user_id, action, resource, success, event_type, details) ==
    LET audit_entry == [timestamp |-> now, user_id |-> user_id,
                        role |-> get_user_role(user_id), action |-> action,
                        resource |-> resource, success |-> success,
                        ip_address |-> "N/A"]
        appended == Append(logs, audit_entry)
    IN  IF Len(appended) > AUDIT_LOG_LIMIT
        THEN SubSeq(appended, Len(appended) - AUDIT_LOG_LIMIT + 1, Len(appended))
        ELSE appended

MAX_JSON_CHARS == 50000
MAX_FIELD_CHARS == 5000

\* a mutant: the type of the payload is not looked at
validate_input_anytype(data) ==
    IF data.json_chars > MAX_JSON_CHARS THEN FALSE
    ELSE IF data.longest_field > MAX_FIELD_CHARS THEN FALSE
    ELSE TRUE

\* SecurityManager.validate_input on a payload of json_chars serialized
\* characters whose longest string field has longest_field characters; body
\* is "object" for a JSON object and "list" for any other non-empty JSON value
validate_input(data) ==
    IF data.body # "object" THEN FALSE
    ELSE IF data.json_chars > MAX_JSON_CHARS THEN FALSE
    ELSE IF data.longest_field > MAX_FIELD_CHARS THEN FALSE
    ELSE TRUE

\* SecurityManager.check_rate_limit: the tuple (allowed, message) of the limiter
security_check_rate_limit(reqs, key, current_time) ==
    LET r == check_rate_limit(reqs, key, current_time)
    IN  [result |-> <<r.allowed, r.message>>, requests |-> r.requests]

\* 'not x' on a tuple: a tuple is false only when it is empty
Truthy(tuple) == Len(tuple) # 0


(***************************************************************************)
(* MonitorManager                                                          *)
(***************************************************************************)
RESPONSE_WINDOW == 100

record_message_received(ms) == [ms EXCEPT !.total_received = @ + 1]

\* response_times is a deque(maxlen=100)
record_message_processed(ms, processing_time) ==
    LET times == Append(ms.response_times, processing_time * 1000)
    IN  [ms EXCEPT !.total_processed = @ + 1,
                   !.response_times =
                       IF Len(times) > RESPONSE_WINDOW
                       THEN SubSeq(times, Len(times) - RESPONSE_WINDOW + 1, Len(times))
                       ELSE times]

record_message_error(ms) == [ms EXCEPT !.total_errors = @ + 1]

\* a mutant: a failed execution is not counted
record_plugin_execution_okonly(ps, plugin_name, execution_time, success) ==
    LET known == IF plugin_name \in DOMAIN ps THEN ps
                 ELSE DictPut(ps, plugin_name,
                        [total_executions |-> 0, successful_executions |-> 0,
                         total_time |-> 0])
        stats == known[plugin_name]
    IN  IF success
        THEN DictPut(known, plugin_name,
                [total_executions |-> stats.total_executions + 1,
                 successful_executions |-> stats.successful_executions + 1,
                 total_time |-> stats.total_time + execution_time])
        ELSE known

\* a mutant: total_time keeps the last duration only
record_plugin_execution_lasttime(ps, plugin_name, execution_time, success) ==
    LET known == IF plugin_name \in DOMAIN ps THEN ps
                 ELSE DictPut(ps, plugin_name,
                        [total_executions |-> 0, successful_executions |-> 0,
                         total_time |-> 0])
        stats == known[plugin_name]
    IN  DictPut(known, plugin_name,
            [total_executions |-> stats.total_executions + 1,
             successful_executions |->
                 IF success THEN stats.successful_executions + 1
                 ELSE stats.successful_executions,
             total_time |-> execution_time])

\* avg_execution_time is total_time / total_executions, not kept apart
record_plugin_execution(ps, plugin_name, execution_time, success) ==
    LET known == IF plugin_name \in DOMAIN ps THEN ps
                 ELSE DictPut(ps, plugin_name,
                        [total_executions |-> 0, successful_executions |-> 0,
                         total_time |-> 0])
        stats == known[plugin_name]
    IN  DictPut(known, plugin_name,
            [total_executions |-> stats.total_executions + 1,
             successful_executions |->
                 IF success THEN stats.successful_executions + 1
                 ELSE stats.successful_executions,
             total_time |-> stats.total_time + execution_time])


(***************************************************************************)
(* The gateway: bot.callback, handler.callback_base and                    *)
(* handler.dispatch_plugin_cmd                                             *)
(*                                                                         *)
(* A request is the HTTP POST on /callback: content type, kind of body     *)
(* (invalid_json, empty for {}, object) with its serialized size and its   *)
(* longest string field, peer address, and the event fields.  at_bot says  *)
(* that the message list holds an at-segment for the robot id.  A request  *)
(* is handled within the second it arrives, so every measured duration is  *)
(* 0.  Calls to the chat service (send_http_msg, requests.post) are kept   *)
(* in the list sent of the request's trace and change nothing else.        *)
(***************************************************************************)
\* config.py: robot_qq, default "1972693082"
\* "/关于"
ABOUT_COMMAND == <<"/", "guan", "yu">>

\* ["小禹帮助"]
SPECIAL_COMMANDS == {<<"xiao", "yu", "bang", "zhu">>}

\* keys of config auto_replies: "你好", "在吗", "谢谢", "再见", "早上好"
AUTO_REPLIES ==
    {<<"ni", "hao">>, <<"zai", "ma">>, <<"xie", "xie">>, <<"zai", "jian">>,
     <<"zao", "shang", "hao">>}

\* f"user_{sender_id}"
UserKey(sender_id) == <<"u", "s", "e", "r", "_">> \o sender_id

SYSTEM_USER == <<"s", "y", "s", "t", "e", "m">>

\* what callback_base returns: a response (is_dict FALSE) or the parsed dict
BaseResult(is_dict, status, retcode, denial, req, raw_msg, is_at_bot, reqs, logs, ip_check, user_check, sent) ==
    [ is_dict |-> is_dict, status |-> status, retcode |-> retcode,
      denial |-> denial, chat_type |-> req.message_type,
      sender_id |-> req.user_id,
      target_id |-> IF req.message_type = "private" THEN req.user_id
                    ELSE req.group_id,
      raw_msg |-> raw_msg, is_at_bot |-> is_at_bot, requests |-> reqs,
      audit_logs |-> logs, ip_check |-> ip_check, user_check |-> user_check,
      sent |-> sent ]

\* handler.py 101-137, user being the limiter's answer for the user key
base_after_user_check(req, logs, ip, user) ==
    IF ~Truthy(user.result)
    THEN BaseResult(FALSE, 200, 0, "rate_limit", req, Strip(req.raw_message), FALSE,
                    user.requests, logs, ip.result, user.result,
                    IF req.message_type = "private"
                    THEN <<[target |-> req.user_id, kind |-> "rate_limit_notice"]>>
                    ELSE <<>>)
    ELSE IF req.user_id = ROBOT_QQ
    THEN BaseResult(FALSE, 200, 0, "none", req, Strip(req.raw_message),
                    req.message_type = "group" /\ req.at_bot,
                    user.requests, logs, ip.result, user.result, <<>>)
    ELSE BaseResult(TRUE, 0, 0, "none", req, Strip(req.raw_message),
                    req.message_type = "group" /\ req.at_bot,
                    user.requests, logs, ip.result, user.result, <<>>)

\* handler.py 25-137, ip being the limiter's answer for the peer address
base_after_ip_check(req, now, logs, ip) ==
    IF ~Truthy(ip.result)
    THEN BaseResult(FALSE, 429, 429, "rate_limit", req, <<>>, FALSE,
                    ip.requests, logs, ip.result, <<>>, <<>>)
    ELSE IF req.body = "empty"
    THEN BaseResult(FALSE, 400, 1, "empty", req, <<>>, FALSE,
                    ip.requests, logs, ip.result, <<>>, <<>>)
    ELSE IF ~validate_input(req)
    THEN BaseResult(FALSE, 403, 403, "invalid_input", req, <<>>, FALSE,
                    ip.requests, logs, ip.result, <<>>, <<>>)
    ELSE IF req.post_type # "message"
    THEN BaseResult(FALSE, 200, 0, "none", req, <<>>, FALSE, ip.requests,
                    log_audit_event(logs, now, SYSTEM_USER, req.post_type,
                                    NoResource, TRUE, "system",
                                    [request_type |-> NoneValue,
                                     notice_type |-> NoneValue]),
                    ip.result, <<>>, <<>>)
    ELSE base_after_user_check(req, logs, ip,
             security_check_rate_limit(ip.requests, UserKey(req.user_id), now))

callback_base(req, now, reqs, logs) ==
    base_after_ip_check(req, now, logs,
        security_check_rate_limit(reqs, req.remote_addr, now))

\* a mutant: the except branch writes its audit entry with success True
run_handler_audit_true(plugin, sender_id, now, logs, ps) ==
    [ handled |-> ~plugin.handler_raises,
      plugin_stats |-> record_plugin_execution(ps, plugin.name, 0, ~plugin.handler_raises),
      audit_logs |-> log_audit_event(logs, now, sender_id, "plugin_executed",
                                     plugin.name, TRUE, "plugin",
                                     ExecutionDetails(0)),
      call |-> [plugin |-> plugin.name, raised |-> plugin.handler_raises] ]

\* handler.py 202-238: the call of handler_func with its accounting
run_handler(plugin, sender_id, now, logs, ps) ==
    IF plugin.handler_raises
    THEN [ handled |-> FALSE,
           plugin_stats |-> record_plugin_execution(ps, plugin.name, 0, FALSE),
           audit_logs |-> log_audit_event(logs, now, sender_id, "plugin_executed",
                                          plugin.name, FALSE, "plugin",
                                          ExecutionDetails(0)),
           call |-> [plugin |-> plugin.name, raised |-> TRUE] ]
    ELSE [ handled |-> TRUE,
           plugin_stats |-> record_plugin_execution(ps, plugin.name, 0, TRUE),
           audit_logs |-> log_audit_event(logs, now, sender_id, "plugin_executed",
                                          plugin.name, TRUE, "plugin",
                                          ExecutionDetails(0)),
           call |-> [plugin |-> plugin.name, raised |-> FALSE] ]

\* handler.py 252-279: is handle_auto_reply called
auto_reply_triggered(raw_msg, chat_type, is_at_bot) ==
    LET is_special_command == \E cmd \in SPECIAL_COMMANDS : IsSubstring(cmd, raw_msg)
        is_auto_reply_match == raw_msg \in AUTO_REPLIES
        is_private_direct_chat ==
            /\ chat_type = "private"
            /\ ~(raw_msg # <<>> /\ raw_msg[1] = "/")
            /\ ~is_special_command
        is_group_at_reply == chat_type = "group" /\ is_at_bot
    IN  is_auto_reply_match \/ is_private_direct_chat \/ is_group_at_reply

\* handler.py 252-282: the auto-reply path and the response, ran being the
\* outcome of the plugin stage and about saying that the about reply was sent
dispatch_finish(parsed, about, ran) ==
    [ status |-> 200, retcode |-> 0,
      audit_logs |-> ran.audit_logs, plugin_stats |-> ran.plugin_stats,
      handler_calls |-> IF ran.call.plugin = "" THEN <<>> ELSE <<ran.call>>,
      handled |-> ran.handled,
      auto_reply_path |-> ~ran.handled,
      sent |-> (IF about THEN <<[target |-> parsed.target_id, kind |-> "about"]>>
                ELSE <<>>)
               \o (IF ~ran.handled /\ auto_reply_triggered(parsed.raw_msg,
                                          parsed.chat_type, parsed.is_at_bot)
                   THEN <<[target |-> IF parsed.chat_type = "group"
                                      THEN parsed.target_id ELSE parsed.sender_id,
                           kind |-> "auto_reply"]>>
                   ELSE <<>>) ]

\* handler.py 198-248, matched being the position of the matched plugin
dispatch_matched(parsed, now, reg, bl, logs, ps, about, matched) ==
    dispatch_finish(parsed, about,
        IF matched # 0 /\ validate_plugin_access(bl, reg[matched].name, parsed.sender_id)
        THEN run_handler(reg[matched], parsed.sender_id, now, logs, ps)
        ELSE [ handled |-> about, plugin_stats |-> ps,
               audit_logs |->
                   IF matched # 0
                   THEN log_audit_event(logs, now, parsed.sender_id,
                                        "permission_denied", "plugin", FALSE,
                                        "security",
                                        [resource |-> "plugin",
                                         plugin_name |-> reg[matched].name])
                   ELSE logs,
               call |-> [plugin |-> "", raised |-> FALSE] ])

\* handler.py 191-197, about saying that the about reply was sent
dispatch_plugins(parsed, now, reg, bl, logs, ps, about) ==
    dispatch_matched(parsed, now, reg, bl, logs, ps, about,
        IF /\ ~about
           /\ \/ check_permission(bl, parsed.sender_id, "basic_query")
              \/ check_permission(bl, parsed.sender_id, "use_plugins")
        THEN get_matched_plugin(reg, parsed.raw_msg, parsed.chat_type,
                                parsed.sender_id, parsed.is_at_bot)
        ELSE 0)

dispatch_plugin_cmd(parsed, now, reg, bl, logs, ps) ==
    dispatch_plugins(parsed, now, reg, bl,
        log_audit_event(logs, now, parsed.sender_id, "message_received",
                        NoResource, TRUE, "message",
                        [chat_type |-> parsed.chat_type, target_id |-> parsed.target_id,
                         command |-> parsed.raw_msg]),
        ps,
        Strip(parsed.raw_msg) = ABOUT_COMMAND /\ validate_command(parsed.raw_msg))

\* bot.py 33-56: a request refused before callback_base
callback_early(req, reqs, logs, ps, ms, status, denial) ==
    [ requests |-> reqs, audit_logs |-> logs, plugin_stats |-> ps,
      message_stats |-> record_message_error(ms),
      trace |-> [NoTrace EXCEPT !.served = TRUE, !.request = req,
                                !.status = status, !.retcode = status,
                                !.denial = denial] ]

\* bot.py 85-89, result being what dispatch_plugin_cmd returned
callback_dispatched(req, ms, parsed_data, result) ==
    [ requests |-> parsed_data.requests,
      audit_logs |-> result.audit_logs,
      plugin_stats |-> result.plugin_stats,
      message_stats |-> record_message_processed(ms, 0),
      trace |-> [ served |-> TRUE, request |-> req, status |-> result.status,
                  retcode |-> result.retcode, denial |-> "none",
                  ip_check |-> parsed_data.ip_check,
                  user_check |-> parsed_data.user_check,
                  handler_calls |-> result.handler_calls,
                  handled |-> result.handled,
                  auto_reply_path |-> result.auto_reply_path,
                  sent |-> result.sent ] ]

\* bot.py 83-100, parsed_data being what callback_base returned
callback_parsed(req, now, reg, bl, ps, ms, parsed_data) ==
    IF parsed_data.is_dict
    THEN callback_dispatched(req, ms, parsed_data,
             dispatch_plugin_cmd(parsed_data, now, reg, bl,
                                 parsed_data.audit_logs, ps))
    ELSE [ requests |-> parsed_data.requests,
           audit_logs |-> parsed_data.audit_logs,
           plugin_stats |-> ps,
           message_stats |-> record_message_processed(ms, 0),
           trace |-> [ served |-> TRUE, request |-> req,
                       status |-> parsed_data.status,
                       retcode |-> parsed_data.retcode,
                       denial |-> parsed_data.denial,
                       ip_check |-> parsed_data.ip_check,
                       user_check |-> parsed_data.user_check,
                       handler_calls |-> <<>>, handled |-> FALSE,
                       auto_reply_path |-> FALSE,
                       sent |-> parsed_data.sent ] ]

\* bot.callback: the outcome of one request on the limiter, the audit log,
\* the accounting and the trace
callback(req, now, reg, bl, reqs, logs, ps, ms) ==
    IF req.content_type # "application/json"
    THEN callback_early(req, reqs, logs, ps, record_message_received(ms),
                        415, "content_type")
    ELSE IF req.body = "invalid_json"
    THEN callback_early(req, reqs, logs, ps, record_message_received(ms),
                        400, "invalid_json")
    ELSE callback_parsed(req, now, reg, bl, ps, record_message_received(ms),
                         callback_base(req, now, reqs, logs))

(***************************************************************************)
(* SpecGate: requests served by the gateway with three plugins loaded.     *)
(* The first MaxVaried requests are any of GateRequests; after them the    *)
(* client repeats its last request, up to MaxRequests requests in all,     *)
(* every one within the same second.                                       *)
(***************************************************************************)
MaxVaried == 2

MaxRequests == 62

LOCAL_IP == <<"1", "2", "7", ".", "0", ".", "0", ".", "1">>

GROUP_ID == <<"7", "0", "0", "0", "1">>

\* the plugin directory: a (for all), b (for all, its handler raises) and
\* c (master only, needs a mention in a group)
GateDir ==
    [d \in Dirs |->
        [PMIdlePluginDir[d] EXCEPT
            !.handler_raises = (d = "b"),
            !.permission = IF d = "c" THEN "master" ELSE "all",
            !.is_at_required = (d = "c")]]

\* the manager after init() on GateDir
GateLoaded ==
    LET scan == scan_plugins_metadata(GateDir)
        st == load_plugins_by_dependency(GateDir, scan.order, [d \in Dirs |-> 0])
    IN  [reg |-> st.reg, versions |-> st.versions, execs |-> st.execs,
         graph |-> scan.graph]

PrivateMessage(user_id, text) ==
    [ content_type |-> "application/json", body |-> "object", json_chars |-> 200,
      longest_field |-> 20, remote_addr |-> LOCAL_IP, post_type |-> "message",
      message_type |-> "private", user_id |-> user_id, group_id |-> <<>>,
      raw_message |-> text, at_bot |-> FALSE ]

GroupMessage(user_id, text, at_bot) ==
    [PrivateMessage(user_id, text) EXCEPT !.message_type = "group",
                                          !.group_id = GROUP_ID,
                                          !.at_bot = at_bot]

GateRequests ==
    { PrivateMessage(GUEST_QQ, <<"/", "a">>),
      GroupMessage(GUEST_QQ, <<" ", "/", "b">>, FALSE),
      GroupMessage(GUEST_QQ, <<"/", "b">>, TRUE),
      GroupMessage(MASTER_QQ, <<"/", "c">>, TRUE),
      PrivateMessage(GUEST_QQ, <<"/", "c">>),
      PrivateMessage(GUEST_QQ, ABOUT_COMMAND),
      PrivateMessage(GUEST_QQ, <<"ni", "hao">>),
      PrivateMessage(ROBOT_QQ, <<"/", "a">>),
      PrivateMessage(<<"1", "2", "3">>, <<"/", "a">>),
      [PrivateMessage(GUEST_QQ, <<"/", "a">>) EXCEPT !.longest_field = 5001,
                                                     !.json_chars = 6000],
      [PrivateMessage(GUEST_QQ, <<>>) EXCEPT !.post_type = "notice"],
      [PrivateMessage(<<>>, <<>>) EXCEPT !.body = "empty", !.post_type = ""],
      [PrivateMessage(<<>>, <<>>) EXCEPT !.body = "invalid_json", !.post_type = ""],
      [PrivateMessage(GUEST_QQ, <<"/", "a">>) EXCEPT !.content_type = "text/plain"] }

InitGate ==
    /\ plugin_dir = GateDir
    /\ PLUGIN_REGISTRY = GateLoaded.reg
    /\ LOADED_PLUGIN_VERSIONS = GateLoaded.versions
    /\ DEPENDENCY_GRAPH = GateLoaded.graph
    /\ initialized = TRUE
    /\ shutdown_calls = [d \in Dirs |-> 0]
    /\ module_execs = GateLoaded.execs
    /\ pm_trace = [op |-> "init", loaded |-> {}, hooked |-> {}, inits |-> 1, raised |-> FALSE,
                   returned |-> "None", arg |-> "",
                   scan_execs |-> scan_plugins_metadata(GateDir).execs]
    /\ CcdIdle /\ VerIdle /\ MatchIdle /\ RateIdle /\ SecIdle /\ MonIdle /\ GateIdle /\ ThreadsIdle

Callback ==
    \E req \in GateRequests :
        /\ message_stats.total_received < MaxRequests
        /\ message_stats.total_received < MaxVaried \/ req = gate_log.request
        /\ LET r == callback(req, clock, PLUGIN_REGISTRY, blacklist, requests,
                             audit_logs, plugin_stats, message_stats)
           IN  /\ requests' = r.requests
               /\ audit_logs' = r.audit_logs
               /\ plugin_stats' = r.plugin_stats
               /\ message_stats' = r.message_stats
               /\ gate_log' = r.trace
        /\ UNCHANGED <<pmVars, ccdVars, verVars, matchVars, clock, rate_history,
                       blacklist, perm_check, threadVars>>

SpecGate == InitGate /\ [][Callback]_vars


(***************************************************************************)
(* C8: when the limiter has refused the caller (the key of the network     *)
(* origin or the key of the user), the gateway rejects the request with a  *)
(* rate-limit denial and invokes no plugin handler for it.                 *)
(***************************************************************************)
Refused(check) == check # <<>> /\ ~check[1]

C8_RateLimitRejects ==
    (gate_log.served /\ (Refused(gate_log.ip_check) \/ Refused(gate_log.user_check)))
    => (gate_log.denial = "rate_limit" /\ gate_log.handler_calls = <<>>)

(***************************************************************************)
(* C9: when the handler of the matched plugin raises, exactly one          *)
(* execution with success false (and none with success true) is added to   *)
(* that plugin's entry of plugin_stats and no other entry changes, the     *)
(* request is answered normally (nothing propagates out of                 *)
(* dispatch_plugin_cmd), and the request after it is served as usual.      *)
(***************************************************************************)
StatsOf(ps, n) ==
    IF n \in DOMAIN ps THEN ps[n]
    ELSE [total_executions |-> 0, successful_executions |-> 0, total_time |-> 0]

Raised(trace) ==
    trace.served /\ trace.handler_calls # <<>> /\ trace.handler_calls[1].raised

C9_RaiseStep ==
    /\ Raised(gate_log') =>
          LET n == gate_log'.handler_calls[1].plugin
          IN  /\ Len(gate_log'.handler_calls) = 1
              /\ n \in DOMAIN plugin_stats'
              /\ plugin_stats'[n].total_executions =
                    StatsOf(plugin_stats, n).total_executions + 1
              /\ plugin_stats'[n].successful_executions =
                    StatsOf(plugin_stats, n).successful_executions
              /\ \A m \in DOMAIN plugin_stats' \ {n} :
                    m \in DOMAIN plugin_stats /\ plugin_stats'[m] = plugin_stats[m]
              /\ gate_log'.status = 200 /\ gate_log'.retcode = 0
              /\ message_stats'.total_processed = message_stats.total_processed + 1
              /\ message_stats'.total_errors = message_stats.total_errors
    /\ (Raised(gate_log) /\ gate_log'.request = PrivateMessage(GUEST_QQ, <<"/", "a">>)) =>
          /\ gate_log'.handled
          /\ gate_log'.handler_calls = <<[plugin |-> "a", raised |-> FALSE]>>
          /\ gate_log'.retcode = 0

C9_HandlerRaise == [][C9_RaiseStep]_vars

\* plugin b raised once and the next request was served by plugin a
C9_Witness ==
    /\ gate_log.served /\ gate_log.handled
    /\ gate_log.handler_calls = <<[plugin |-> "a", raised |-> FALSE]>>
    /\ "b" \in DOMAIN plugin_stats
    /\ plugin_stats["b"].total_executions = 1
    /\ plugin_stats["b"].successful_executions = 0
    /\ message_stats.total_received = 2
    /\ message_stats.total_processed = 2

(***************************************************************************)
(* C10: shutdown invokes the on_shutdown hook of each loaded plugin that   *)
(* has one exactly once and the hook of no other plugin, and afterwards    *)
(* the registry, the version table and the dependency graph are empty and  *)
(* get_plugin_metadata returns None for every name that was loaded.        *)
(***************************************************************************)
C10_ShutdownStep ==
    pm_trace'.op = "shutdown" =>
        /\ \A d \in Dirs :
              shutdown_calls'[d] = shutdown_calls[d] +
                 (IF \E i \in 1..Len(PLUGIN_REGISTRY) :
                        /\ PLUGIN_REGISTRY[i].plugin_path = d
                        /\ PLUGIN_REGISTRY[i].on_shutdown # "none"
                  THEN 1 ELSE 0)
        /\ PLUGIN_REGISTRY' = <<>>
        /\ LOADED_PLUGIN_VERSIONS' = EmptyDict
        /\ DEPENDENCY_GRAPH' = EmptyDict
        /\ \A i \in 1..Len(PLUGIN_REGISTRY) :
              get_plugin_metadata(PLUGIN_REGISTRY', PLUGIN_REGISTRY[i].name) = NoneValue

C10_InitThenShutdown == [][C10_ShutdownStep]_vars

\* init loaded three plugins, two of them with a hook, and shutdown has run
C10_Witness ==
    /\ pm_trace.op = "shutdown" /\ pm_trace.inits = 1
    /\ pm_trace.loaded = Dirs
    /\ pm_trace.hooked = {"a", "c"}
    /\ shutdown_calls = [d \in Dirs |-> IF d = "b" THEN 0 ELSE 1]
    /\ PLUGIN_REGISTRY = <<>>
    /\ \A d \in Dirs : get_plugin_metadata(PLUGIN_REGISTRY, d) = NoneValue

(***************************************************************************)
(* C11: a hook that raises during shutdown                                 *)
(***************************************************************************)
HookOf(reg, d) ==
    IF \E i \in 1..Len(reg) : reg[i].plugin_path = d
    THEN reg[CHOOSE i \in 1..Len(reg) : reg[i].plugin_path = d].on_shutdown
    ELSE "none"

SomeHookRaises(reg) == \E i \in 1..Len(reg) : reg[i].on_shutdown = "raises"

C11_RaisingHookStep ==
    (pm_trace'.op = "shutdown" /\ SomeHookRaises(PLUGIN_REGISTRY)) =>
        /\ ~pm_trace'.raised
        /\ \A d \in Dirs :
              HookOf(PLUGIN_REGISTRY, d) # "none" =>
                  shutdown_calls'[d] = shutdown_calls[d] + 1
        /\ PLUGIN_REGISTRY' = <<>>
        /\ LOADED_PLUGIN_VERSIONS' = EmptyDict
        /\ DEPENDENCY_GRAPH' = EmptyDict
        /\ ~initialized'

\* C11: when shutdown runs while a loaded plugin's on_shutdown hook raises, the
\* exception does not leave shutdown: the hook of every loaded plugin that has
\* one is still called once, the registry, the version table and the
\* dependency graph are cleared, and the manager is no longer initialized.
C11_HookFailureSwallowed == [][C11_RaisingHookStep]_vars

\* a, b and c were loaded in that order, the hook of a raised, and shutdown
\* went on to call the hook of c and to clear the registry
C11_Witness ==
    /\ pm_trace.op = "shutdown" /\ ~pm_trace.raised
    /\ plugin_dir["a"].on_shutdown = "raises"
    /\ \A d \in Dirs : plugin_dir[d].dependencies = <<>>
    /\ pm_trace.loaded = Dirs
    /\ shutdown_calls["a"] = 1 /\ shutdown_calls["c"] = 1
    /\ PLUGIN_REGISTRY = <<>> /\ ~initialized

(***************************************************************************)
(* SpecReg: init, register_plugin, reload_plugin and shutdown in any order *)
(***************************************************************************)
\* handler.register_plugin: 'PLUGIN_REGISTRY.append(plugin_meta)'
register_plugin(reg, plugin_meta) == Append(reg, plugin_meta)

\* The names reload_plugin binds.  'PLUGIN_REGISTRY = [...]' in its body, with
\* no global statement, makes PLUGIN_REGISTRY a local name of the function.
reload_plugin_locals == {"plugin_path", "plugin", "PLUGIN_REGISTRY", "e"}

\* PluginManager.reload_plugin.  Its first statement after the assignment of
\* None to plugin_path, 'for plugin in PLUGIN_REGISTRY', reads the local name
\* before anything is bound to it: UnboundLocalError, outside the try block.
reload_plugin(reg, plugin_name) ==
    IF "PLUGIN_REGISTRY" \in reload_plugin_locals
    THEN [raised |-> TRUE, returned |-> "None", reg |-> reg]
    ELSE IF \A i \in 1..Len(reg) : reg[i].name # plugin_name
    THEN [raised |-> FALSE, returned |-> "False", reg |-> reg]
    ELSE [raised |-> FALSE, returned |-> "True",
          reg |-> SelectSeq(reg, LAMBDA p : p.name # plugin_name)]

\* the names plugins declare and callers ask for
RegNames == Dirs \cup {"x"}

\* the dependency names of the directories of SpecReg
RegGraphs ==
    { [d \in Dirs |-> <<>>],
      [d \in Dirs |-> IF d = "a" THEN <<"b">> ELSE IF d = "b" THEN <<"c">> ELSE <<>>] }

\* the 'commands' a PLUGIN_META may hold: one command, or the empty list
RegCommands(d) == { << <<"/", d>> >>, <<>> }

\* Directories without defect; PLUGIN_META of directory d declares the name d
\* or the name x, and that of c may hold an empty 'commands' list
RegDirs ==
    { [d \in Dirs |->
          [Descriptor(d, g[d], [dir |-> "-", defect |-> "none", ranged |-> FALSE])
              EXCEPT !.name = n[d],
                     !.commands = IF d = "c" THEN cmds ELSE @]] :
      g \in RegGraphs,
      n \in {f \in [Dirs -> RegNames] : \A d \in Dirs : f[d] \in {d, "x"}},
      cmds \in RegCommands("c") }

\* a descriptor handed to register_plugin by a caller: no core module
ExternalMeta(name) ==
    [ name |-> name,
      version |-> V_1_0,
      commands |-> << <<"/", name>> >>,
      chat_type |-> {"private", "group"},
      permission |-> "all",
      is_at_required |-> FALSE,
      dependencies |-> <<>>,
      plugin_path |-> "-",
      handler_raises |-> FALSE,
      on_shutdown |-> "none" ]

\* how long the registry may grow by register_plugin
MaxEntries == 4

RegisterPlugin ==
    /\ Len(PLUGIN_REGISTRY) < MaxEntries
    /\ \E name \in {"a", "x"} :
          /\ PLUGIN_REGISTRY' = register_plugin(PLUGIN_REGISTRY, ExternalMeta(name))
          /\ pm_trace' = [pm_trace EXCEPT !.op = "register", !.raised = FALSE,
                                          !.returned = "None", !.arg = name]
    /\ UNCHANGED <<plugin_dir, LOADED_PLUGIN_VERSIONS, DEPENDENCY_GRAPH, initialized,
                   shutdown_calls, module_execs>>

ReloadDone(plugin_name, r) ==
    /\ PLUGIN_REGISTRY' = r.reg
    /\ pm_trace' = [pm_trace EXCEPT !.op = "reload", !.raised = r.raised,
                                    !.returned = r.returned, !.arg = plugin_name]
    /\ UNCHANGED <<plugin_dir, LOADED_PLUGIN_VERSIONS, DEPENDENCY_GRAPH, initialized,
                   shutdown_calls, module_execs>>

ReloadPlugin ==
    \E plugin_name \in RegNames :
        ReloadDone(plugin_name, reload_plugin(PLUGIN_REGISTRY, plugin_name))

InitReg ==
    /\ plugin_dir \in RegDirs
    /\ PLUGIN_REGISTRY = <<>>
    /\ LOADED_PLUGIN_VERSIONS = EmptyDict
    /\ DEPENDENCY_GRAPH = EmptyDict
    /\ initialized = FALSE
    /\ shutdown_calls = [d \in Dirs |-> 0]
    /\ module_execs = [d \in Dirs |-> 0]
    /\ pm_trace = [op |-> "new", loaded |-> {}, hooked |-> {}, inits |-> 0,
                   raised |-> FALSE, returned |-> "None", arg |-> "", scan_execs |-> {}]
    /\ CcdIdle /\ VerIdle /\ MatchIdle /\ RateIdle /\ SecIdle /\ MonIdle /\ GateIdle /\ ThreadsIdle

NextReg ==
    \/ PMInit /\ UNCHANGED notPm
    \/ RegisterPlugin /\ UNCHANGED notPm
    \/ ReloadPlugin /\ UNCHANGED notPm
    \/ Shutdown /\ UNCHANGED notPm

SpecReg == InitReg /\ [][NextReg]_vars

RegistryNames(reg) == [i \in 1..Len(reg) |-> reg[i].name]

EntriesNamed(reg, name) == Cardinality({i \in 1..Len(reg) : reg[i].name = name})

C12_ReloadStep ==
    pm_trace'.op = "reload" =>
        /\ ~pm_trace'.raised
        /\ IF EntriesNamed(PLUGIN_REGISTRY, pm_trace'.arg) > 0
           THEN /\ pm_trace'.returned = "True"
                /\ EntriesNamed(PLUGIN_REGISTRY', pm_trace'.arg) = 1
           ELSE /\ pm_trace'.returned = "False"
                /\ PLUGIN_REGISTRY' = PLUGIN_REGISTRY

\* C12: reload_plugin(name) never raises and returns a boolean: true for a
\* name present in the registry, which then holds exactly one entry of that
\* name, and false for an absent name, the registry being unchanged.
C12_ReloadReturnsBoolean == [][C12_ReloadStep]_vars

\* C17: in every reachable state no two entries of PLUGIN_REGISTRY have the
\* same name, whatever names the scanned directories declare and whatever
\* sequence of init, register_plugin, reload_plugin and shutdown is run.
C17_UniqueNames == IsDistinct(RegistryNames(PLUGIN_REGISTRY))

(***************************************************************************)
(* C13 - C16: what one faulty plugin does to the others during init        *)
(***************************************************************************)
Registered(d) == \E i \in 1..Len(PLUGIN_REGISTRY) : PLUGIN_REGISTRY[i].plugin_path = d

Scanned(D) == DOMAIN DiskGraph(D)

\* d declares a dependency on a name that phase 1 did not scan
HasMissingDependency(D, d) ==
    d \in Scanned(D) /\ \E n \in Range(DepNames(D, d)) : n \notin Scanned(D)

\* d declares a scanned dependency whose version is outside the declared range
HasVersionConflict(D, d) ==
    /\ d \in Scanned(D)
    /\ \E i \in 1..Len(D[d].dependencies) :
          /\ D[d].dependencies[i].name \in Scanned(D)
          /\ ~VersionInRange(D[D[d].dependencies[i].name].version, D[d].dependencies[i])

\* nothing on disk prevents loading d: d and everything it depends on, directly
\* or not, is scanned, has its core file and handler, lies on no cycle and
\* declares only dependencies whose versions are in range
Sound(D, d) ==
    /\ d \in Scanned(D)
    /\ \A e \in ReachFrom(DiskGraph(D), {d}) :
          /\ e \in Scanned(D)
          /\ D[e].core = "ok"
          /\ ~OnCycle(DiskGraph(D), e)
          /\ ~HasVersionConflict(D, e)

SoundLoaded == \A d \in Dirs : Sound(plugin_dir, d) => Registered(d)

\* C13: a dependency cycle is local: after init on a directory with a cycle,
\* every plugin that is neither on a cycle nor dependent on one, and that
\* nothing else prevents from loading, is registered.
C13_CycleIsLocal ==
    (pm_trace.op = "init" /\ ~Acyclic(DiskGraph(plugin_dir))) => SoundLoaded

\* C14: when init reaches its load phase, a plugin declaring a dependency
\* absent from the scanned batch is not registered, and every plugin that
\* does not depend on it, directly or not, and that nothing else prevents from
\* loading, is registered.
C14_MissingDependency ==
    (pm_trace.op = "init" /\ initialized) =>
        \A p \in Dirs : HasMissingDependency(plugin_dir, p) =>
            /\ ~Registered(p)
            /\ p \notin DOMAIN LOADED_PLUGIN_VERSIONS
            /\ \A d \in Dirs :
                  (p \notin ReachFrom(DiskGraph(plugin_dir), {d}) /\ Sound(plugin_dir, d))
                      => Registered(d)

\* c was not scanned, b depends on c and is left out, a is loaded after b failed
C14_Witness ==
    /\ pm_trace.op = "init" /\ initialized
    /\ ~plugin_dir["c"].readable
    /\ DepNames(plugin_dir, "b") = <<"c">>
    /\ DepNames(plugin_dir, "a") = <<>>
    /\ RegistryPaths = <<"a">>

\* C15: when init reaches its load phase and a plugin declares a range that
\* the version of a loadable dependency is outside of, the dependent is not
\* registered, the dependency is registered with its version, and every
\* plugin that nothing else prevents from loading is registered.
C15_VersionConflict ==
    (pm_trace.op = "init" /\ initialized) =>
        \A p \in Dirs : \A i \in 1..Len(plugin_dir[p].dependencies) :
            LET dep == plugin_dir[p].dependencies[i] IN
            (/\ p \in Scanned(plugin_dir)
             /\ Sound(plugin_dir, dep.name)
             /\ ~VersionInRange(plugin_dir[dep.name].version, dep)) =>
                /\ ~Registered(p)
                /\ p \notin DOMAIN LOADED_PLUGIN_VERSIONS
                /\ Registered(dep.name)
                /\ LOADED_PLUGIN_VERSIONS[dep.name] = plugin_dir[dep.name].version
                /\ SoundLoaded

\* a needs c below 2.0, c is v2.0.1: c and b are loaded, a is not
C15_Witness ==
    /\ pm_trace.op = "init" /\ initialized
    /\ plugin_dir["c"].version = V_v2_0_1
    /\ DepNames(plugin_dir, "a") = <<"c">>
    /\ DepNames(plugin_dir, "b") = <<>>
    /\ RegistryPaths = <<"c", "b">>
    /\ DOMAIN LOADED_PLUGIN_VERSIONS = {"b", "c"}

\* C16: registration is atomic per plugin: in every state a plugin directory
\* has an entry in PLUGIN_REGISTRY exactly when it has one in
\* LOADED_PLUGIN_VERSIONS; after init a plugin whose core file or handler is
\* missing has neither, init has returned without raising, and when the load
\* phase ran every plugin that nothing prevents from loading is registered.
C16_AtomicRegistration ==
    /\ \A d \in Dirs : Registered(d) <=> d \in DOMAIN LOADED_PLUGIN_VERSIONS
    /\ DOMAIN LOADED_PLUGIN_VERSIONS \subseteq Dirs
    /\ pm_trace.op = "init" =>
          /\ ~pm_trace.raised
          /\ \A d \in Dirs : plugin_dir[d].core # "ok" =>
                 ~Registered(d) /\ d \notin DOMAIN LOADED_PLUGIN_VERSIONS
          /\ initialized => SoundLoaded

\* the core module of a has no handler: a ran but is in neither table, b and
\* c are in both
C16_Witness ==
    /\ pm_trace.op = "init" /\ initialized
    /\ plugin_dir["a"].core = "no_handler"
    /\ module_execs["a"] = 1
    /\ RegistryPaths = <<"b", "c">>
    /\ DOMAIN LOADED_PLUGIN_VERSIONS = {"b", "c"}

\* C18: every plugin registered by init has at least one command: a
\* descriptor whose commands list is present but empty never enters the
\* registry.
C18_NonEmptyCommands ==
    pm_trace.op = "init" =>
        \A i \in 1..Len(PLUGIN_REGISTRY) : PLUGIN_REGISTRY[i].commands # <<>>

(***************************************************************************)
(* SpecSec: the blacklist, check_permission and the gateway.  Callers are  *)
(* put on and taken off the blacklist, check_permission is called for any  *)
(* caller and permission, and up to MaxSecRequests requests are served.    *)
(***************************************************************************)
\* SecurityManager.add_to_blacklist: 'self.blacklist[user_id] = {...}'; only
\* the keys of the dictionary are ever tested
add_to_blacklist(bl, user_id) == bl \cup {user_id}

\* SecurityManager.remove_from_blacklist
remove_from_blacklist(bl, user_id) ==
    IF user_id \in bl THEN bl \ {user_id} ELSE bl

INVALID_QQ == <<"1", "2", "3">>

\* the callers that are put on the blacklist
ListedUsers == {MASTER_QQ, GUEST_QQ}

\* the callers check_permission is asked about
SecUsers == ListedUsers \cup {ROBOT_QQ, INVALID_QQ}

Permissions == {"basic_query", "use_plugins", "manage_plugins", "system_admin", "other"}

MaxSecRequests == 2

SecRequests ==
    { PrivateMessage(GUEST_QQ, <<"/", "a">>),
      GroupMessage(MASTER_QQ, <<"/", "c">>, TRUE),
      PrivateMessage(GUEST_QQ, <<"ni", "hao">>) }

notSec == <<pmVars, ccdVars, verVars, matchVars, rateVars, monVars, gate_log, threadVars>>

AddToBlacklist ==
    /\ \E user_id \in ListedUsers : blacklist' = add_to_blacklist(blacklist, user_id)
    /\ UNCHANGED <<audit_logs, perm_check, notSec>>

RemoveFromBlacklist ==
    /\ \E user_id \in ListedUsers : blacklist' = remove_from_blacklist(blacklist, user_id)
    /\ UNCHANGED <<audit_logs, perm_check, notSec>>

CheckPermission ==
    /\ \E user_id \in SecUsers, permission \in Permissions :
          perm_check' = [called |-> TRUE, user_id |-> user_id,
                         permission |-> permission,
                         listed |-> user_id \in blacklist,
                         role |-> get_user_role(user_id),
                         allowed |-> check_permission(blacklist, user_id, permission)]
    /\ UNCHANGED <<blacklist, audit_logs, notSec>>

SecCallbackDone(r) ==
    /\ requests' = r.requests
    /\ audit_logs' = r.audit_logs
    /\ plugin_stats' = r.plugin_stats
    /\ message_stats' = r.message_stats
    /\ gate_log' = r.trace
    /\ UNCHANGED <<pmVars, ccdVars, verVars, matchVars, clock, rate_history,
                   blacklist, perm_check,
                   threadVars>>

SecCallback ==
    /\ message_stats.total_received < MaxSecRequests
    /\ \E req \in SecRequests :
          SecCallbackDone(callback(req, clock, PLUGIN_REGISTRY, blacklist, requests,
                                   audit_logs, plugin_stats, message_stats))

NextSec ==
    \/ AddToBlacklist
    \/ RemoveFromBlacklist
    \/ CheckPermission
    \/ SecCallback

SpecSec == InitGate /\ [][NextSec]_vars

C19_Step ==
    /\ (perm_check' # perm_check) =>
          IF perm_check'.user_id \in blacklist
          THEN ~perm_check'.allowed
          ELSE perm_check'.allowed =
                  check_permission({}, perm_check'.user_id, perm_check'.permission)
    /\ (gate_log' # gate_log /\ gate_log'.request.user_id \in blacklist) =>
          gate_log'.handler_calls = <<>>
    /\ \A u \in ListedUsers :
          (u \in blacklist /\ u \notin blacklist') =>
              \A p \in Permissions :
                  check_permission(blacklist', u, p) = check_permission({}, u, p)

\* C19: while a caller is on the blacklist, check_permission denies the caller
\* every permission, whatever the caller's role (the master included), and a
\* request of that caller makes dispatch_plugin_cmd call no plugin handler;
\* once remove_from_blacklist has taken the caller off, check_permission
\* gives what it gives for the caller's role on an empty blacklist.
C19_BlacklistOverridesRole == [][C19_Step]_vars

\* the master is on the blacklist, was denied basic_query, and the master's
\* mention of the master-only command c in the group reached no handler
C19_Witness ==
    /\ MASTER_QQ \in blacklist
    /\ perm_check = [called |-> TRUE, user_id |-> MASTER_QQ, permission |-> "basic_query",
                     listed |-> TRUE, role |-> "master", allowed |-> FALSE]
    /\ gate_log.served
    /\ gate_log.request = GroupMessage(MASTER_QQ, <<"/", "c">>, TRUE)
    /\ gate_log.status = 200
    /\ gate_log.handler_calls = <<>>

\* the role the documentation gives a caller: the configured master id is
\* master, the configured id of the bot itself is self, any other is guest
DocumentedRole(user_id) ==
    IF user_id = MASTER_QQ THEN "master"
    ELSE IF user_id = CONFIG_FILE.self_qq THEN "self"
    ELSE "guest"

DocumentedGrants(role) ==
    IF role = "guest" THEN {"basic_query"}
    ELSE IF role = "self" THEN {"basic_query", "use_plugins"}
    ELSE {"basic_query", "use_plugins", "manage_plugins", "system_admin"}

\* C20: get_user_role maps the configured master id to master, the configured
\* self id to self and every other id to guest; for a valid caller that is
\* not on the blacklist check_permission grants exactly basic_query to a
\* guest, use_plugins besides to self, and manage_plugins and system_admin
\* besides to the master; the result depends on the caller id and the
\* permission alone.
C20_RoleTable ==
    (perm_check.called /\ is_valid_qq(perm_check.user_id) /\ ~perm_check.listed) =>
        /\ perm_check.role = DocumentedRole(perm_check.user_id)
        /\ perm_check.allowed =
              (perm_check.permission \in DocumentedGrants(perm_check.role))
        /\ perm_check.allowed =
              check_permission({}, perm_check.user_id, perm_check.permission)

(***************************************************************************)
(* SpecInput: the gateway serving payloads of every kind and size          *)
(***************************************************************************)
MaxInputRequests == 3

\* a command for plugin a, from the guest or the master, in a payload that is a JSON object or some other
\* non-empty JSON value, with sizes at and just above the two caps
InputRequests ==
    { [PrivateMessage(u, <<"/", "a">>) EXCEPT
          !.body = b, !.json_chars = n, !.longest_field = m] :
      u \in {GUEST_QQ, MASTER_QQ}, b \in {"object", "list"},
      n \in {6000, 50000, 50001}, m \in {20, 5000, 5001} }

InputCallback ==
    /\ message_stats.total_received < MaxInputRequests
    /\ \E req \in InputRequests :
          SecCallbackDone(callback(req, clock, PLUGIN_REGISTRY, blacklist, requests,
                                   audit_logs, plugin_stats, message_stats))

SpecInput == InitGate /\ [][InputCallback]_vars

Oversized(req) ==
    req.body = "list" \/ req.json_chars > 50000 \/ req.longest_field > 5000

PermissionDenied(trace, bl) ==
    /\ trace.auto_reply_path
    /\ ~check_permission(bl, trace.request.user_id, "basic_query")
    /\ ~check_permission(bl, trace.request.user_id, "use_plugins")

GatewayDenied(trace, bl) ==
    \/ trace.denial \in {"rate_limit", "invalid_input"}
    \/ PermissionDenied(trace, bl)

C22_DenialStep ==
    (/\ message_stats'.total_received = message_stats.total_received + 1
     /\ GatewayDenied(gate_log', blacklist)) =>
        /\ Len(audit_logs') = Len(audit_logs) + 1
        /\ SubSeq(audit_logs', 1, Len(audit_logs)) = audit_logs
        /\ ~audit_logs'[Len(audit_logs')].success

\* C22: a request the gateway denies (refused by the rate limiter, refused by
\* input validation, or without permission in dispatch_plugin_cmd) appends
\* exactly one entry to the audit log, a record of the denial.
C22_DenialAudited == [][C22_DenialStep]_vars

(***************************************************************************)
(* SpecAudit: requests that reach a plugin handler while log_audit_event   *)
(* may fail.  A fault names the calls of log_audit_event, among the two    *)
(* that follow the handler, that raise; a call that raises appends nothing.*)
(***************************************************************************)
AuditFaults == SUBSET {"success_audit", "failure_audit"}

\* handler.py 227-238: the except branch, entered when the handler or
\* anything after it in the try block raised; escaped says that its own
\* log_audit_event raised, which leaves the branch
handler_except(plugin, sender_id, now, logs, ps, handled, call, fault) ==
    [ handled |-> handled,
      plugin_stats |-> record_plugin_execution(ps, plugin.name, 0, FALSE),
      audit_logs |-> IF "failure_audit" \in fault THEN logs
                     ELSE log_audit_event(logs, now, sender_id, "plugin_executed",
                                          plugin.name, FALSE, "plugin",
                                          ExecutionDetails(0)),
      call |-> call,
      escaped |-> "failure_audit" \in fault ]

\* handler.py 203-238: handler_func, its accounting and its audit entry in
\* one try block
handler_try(plugin, sender_id, now, logs, ps, fault) ==
    IF plugin.handler_raises
    THEN handler_except(plugin, sender_id, now, logs, ps, FALSE,
                        [plugin |-> plugin.name, raised |-> TRUE], fault)
    ELSE IF "success_audit" \in fault
    THEN handler_except(plugin, sender_id, now, logs,
                        record_plugin_execution(ps, plugin.name, 0, TRUE), TRUE,
                        [plugin |-> plugin.name, raised |-> FALSE], fault)
    ELSE [ handled |-> TRUE,
           plugin_stats |-> record_plugin_execution(ps, plugin.name, 0, TRUE),
           audit_logs |-> log_audit_event(logs, now, sender_id, "plugin_executed",
                                          plugin.name, TRUE, "plugin",
                                          ExecutionDetails(0)),
           call |-> [plugin |-> plugin.name, raised |-> FALSE],
           escaped |-> FALSE ]

\* handler.py 283-287: the response of dispatch_plugin_cmd when an exception
\* reached its outer except
dispatch_failed(ran) ==
    [ status |-> 500, retcode |-> 1,
      audit_logs |-> ran.audit_logs, plugin_stats |-> ran.plugin_stats,
      handler_calls |-> <<ran.call>>, handled |-> ran.handled,
      auto_reply_path |-> FALSE, sent |-> <<>> ]

\* dispatch_plugin_cmd from the handler stage on
dispatch_after_handler(parsed, ran) ==
    IF ran.escaped THEN dispatch_failed(ran) ELSE dispatch_finish(parsed, FALSE, ran)

\* the plugin a request reaches, 0 when it reaches none
ReachedPlugin(parsed, reg, bl) ==
    IF /\ parsed.is_dict
       /\ Strip(parsed.raw_msg) # ABOUT_COMMAND
       /\ \/ check_permission(bl, parsed.sender_id, "basic_query")
          \/ check_permission(bl, parsed.sender_id, "use_plugins")
    THEN get_matched_plugin(reg, parsed.raw_msg, parsed.chat_type, parsed.sender_id,
                            parsed.is_at_bot)
    ELSE 0

\* bot.callback for a request that reaches the plugin at position matched
callback_reaching(req, now, reg, ps, ms, parsed, matched, fault) ==
    callback_dispatched(req, record_message_received(ms), parsed,
        dispatch_after_handler(parsed,
            handler_try(reg[matched], parsed.sender_id, now,
                log_audit_event(parsed.audit_logs, now, parsed.sender_id,
                                "message_received", NoResource, TRUE, "message",
                                [chat_type |-> parsed.chat_type,
                                 target_id |-> parsed.target_id,
                                 command |-> parsed.raw_msg]),
                ps, fault)))

MaxAuditRequests == 2

AuditRequests ==
    { PrivateMessage(GUEST_QQ, <<"/", "a">>),
      PrivateMessage(MASTER_QQ, <<"/", "a">>),
      GroupMessage(GUEST_QQ, <<" ", "/", "b">>, FALSE),
      GroupMessage(MASTER_QQ, <<"/", "c">>, TRUE) }

AuditFaultReached(req, parsed, fault) ==
    /\ ReachedPlugin(parsed, PLUGIN_REGISTRY, blacklist) # 0
    /\ SecCallbackDone(callback_reaching(req, clock, PLUGIN_REGISTRY, plugin_stats,
                           message_stats, parsed,
                           ReachedPlugin(parsed, PLUGIN_REGISTRY, blacklist), fault))

AuditFaultCallback ==
    /\ message_stats.total_received < MaxAuditRequests
    /\ \E req \in AuditRequests, fault \in AuditFaults :
          AuditFaultReached(req, callback_base(req, clock, requests, audit_logs), fault)

SpecAudit == InitGate /\ [][AuditFaultCallback]_vars

\* C26: once a plugin handler has returned without raising, the request is
\* answered with the normal success response (status 200, retcode 0),
\* whether or not the calls of log_audit_event that follow it raise.
C26_AuditNeverBlocks ==
    (/\ gate_log.served
     /\ gate_log.handler_calls # <<>>
     /\ ~gate_log.handler_calls[1].raised) =>
        gate_log.status = 200 /\ gate_log.retcode = 0

(***************************************************************************)
(* C23: one audit entry per handler invocation                             *)
(***************************************************************************)
\* the entries a step appended to the audit log
NewAuditEntries == SubSeq(audit_logs', Len(audit_logs) + 1, Len(audit_logs'))

PluginExecutions(entries) == SelectSeq(entries, LAMBDA a : a.action = "plugin_executed")

C23_HandlerStep ==
    (message_stats'.total_received = message_stats.total_received + 1) =>
        /\ SubSeq(audit_logs', 1, Len(audit_logs)) = audit_logs
        /\ Len(PluginExecutions(NewAuditEntries)) = Len(gate_log'.handler_calls)
        /\ \A i \in 1..Len(gate_log'.handler_calls) :
              /\ PluginExecutions(NewAuditEntries)[i].resource =
                    gate_log'.handler_calls[i].plugin
              /\ PluginExecutions(NewAuditEntries)[i].user_id = gate_log'.request.user_id
              /\ PluginExecutions(NewAuditEntries)[i].success =
                    ~gate_log'.handler_calls[i].raised

\* C23: serving a request appends one plugin_executed audit entry for each
\* plugin handler it invoked and none otherwise; the entry names the plugin
\* and the sender, and its success field is true exactly when the handler
\* returned without raising.
C23_ExecutionAudited == [][C23_HandlerStep]_vars

\* the handler of plugin b was invoked and raised; the last audit entry is
\* its plugin_executed entry, with success false
C23_Witness ==
    /\ gate_log.served
    /\ gate_log.handler_calls = <<[plugin |-> "b", raised |-> TRUE]>>
    /\ audit_logs # <<>>
    /\ audit_logs[Len(audit_logs)].action = "plugin_executed"
    /\ audit_logs[Len(audit_logs)].resource = "b"
    /\ ~audit_logs[Len(audit_logs)].success
    /\ Len(PluginExecutions(audit_logs)) = 1

C25_RefusedStep ==
    (/\ message_stats'.total_received = message_stats.total_received + 1
     /\ Refused(gate_log'.ip_check) \/ Refused(gate_log'.user_check)) =>
        /\ message_stats'.total_processed = message_stats.total_processed
        /\ message_stats'.response_times = message_stats.response_times

\* C25: serving a request that the rate limiter refused (for the key of the
\* network origin or the key of the user) leaves total_processed and the
\* window of response times as they were.
C25_RefusedNotProcessed == [][C25_RefusedStep]_vars

(***************************************************************************)
(* SpecRing: log_audit_event called again and again.  The first call       *)
(* chooses the user and the outcome, the later ones repeat them; the time  *)
(* of a call is the number of calls before it.                             *)
(***************************************************************************)
MaxAuditCalls == 1002

InitRing ==
    PMIdle /\ CcdIdle /\ VerIdle /\ MatchIdle /\ RateIdle /\ SecIdle /\ MonIdle /\ GateIdle /\ ThreadsIdle

LogAuditEventDone(user_id, success) ==
    /\ audit_logs' = log_audit_event(audit_logs, clock, user_id, "plugin_executed",
                                     "a", success, "plugin", ExecutionDetails(0))
    /\ clock' = clock + 1
    /\ UNCHANGED <<pmVars, ccdVars, verVars, matchVars, requests, rate_history,
                   blacklist, perm_check, monVars, gate_log, threadVars>>

LogAuditEvent ==
    /\ clock < MaxAuditCalls
    /\ IF audit_logs = <<>>
       THEN \E user_id \in {GUEST_QQ, MASTER_QQ}, success \in BOOLEAN :
               LogAuditEventDone(user_id, success)
       ELSE LogAuditEventDone(audit_logs[1].user_id, audit_logs[1].success)

SpecRing == InitRing /\ [][LogAuditEvent]_vars

Min(a, b) == IF a < b THEN a ELSE b

\* C24: after n calls of log_audit_event the audit log holds min(n, 1000)
\* entries, never more than 1000: the newest ones, in the order of their
\* calls, each as it was appended.
C24_BoundedRing ==
    /\ Len(audit_logs) = Min(clock, 1000)
    /\ \A i \in 1..Len(audit_logs) :
          /\ audit_logs[i].timestamp = clock - Len(audit_logs) + i - 1
          /\ audit_logs[i] = [audit_logs[Len(audit_logs)] EXCEPT
                                 !.timestamp = clock - Len(audit_logs) + i - 1]
          /\ audit_logs[i].action = "plugin_executed" /\ audit_logs[i].resource = "a"
          /\ audit_logs[i].role = get_user_role(audit_logs[i].user_id)

\* 1002 calls were made: the entries of the first two are gone
C24_Witness ==
    /\ clock = 1002
    /\ Len(audit_logs) = 1000
    /\ audit_logs[1].timestamp = 2 /\ audit_logs[1000].timestamp = 1001
    /\ audit_logs[1].user_id = MASTER_QQ /\ ~audit_logs[1].success


(***************************************************************************)
(* C27: phase 1 of init runs no plugin code.                               *)
(***************************************************************************)
\* C27: _scan_plugins_metadata executes no module that belongs to a plugin:
\* when the scan and the cycle check of an init() are over, no plugin
\* directory has had a module of its own executed by the scan.
C27_ScanRunsNoPluginCode == pm_trace.scan_execs = {}


(***************************************************************************)
(* SpecStats: MonitorManager.record_plugin_execution called any number of  *)
(* times, for two plugin names, with a duration and an outcome.            *)
(***************************************************************************)
\* how many calls of record_plugin_execution one behaviour makes
MaxStatCalls == 3

StatNames == {"a", "b"}

\* execution_time, in milliseconds
StatDurations == {0, 2, 5}

RecordPluginExecution ==
    /\ Len(stat_calls) < MaxStatCalls
    /\ \E plugin_name \in StatNames, execution_time \in StatDurations, success \in BOOLEAN :
          /\ plugin_stats' =
                 record_plugin_execution(plugin_stats, plugin_name, execution_time, success)
          /\ stat_calls' = Append(stat_calls,
                 [plugin_name |-> plugin_name, execution_time |-> execution_time,
                  success |-> success])
    /\ UNCHANGED <<pmVars, ccdVars, verVars, matchVars, rateVars, secVars,
                   message_stats, gate_log, limiter_threads, registry_threads,
                   audit_threads>>

SpecStats == InitRing /\ [][RecordPluginExecution]_vars

\* the calls made for one name, in order
CallsFor(calls, name) == SelectSeq(calls, LAMBDA c : c.plugin_name = name)

RECURSIVE SumTime(_)
SumTime(calls) ==
    IF calls = <<>> THEN 0 ELSE calls[1].execution_time + SumTime(Tail(calls))

\* the statistics agree with the calls made
Tallied(ps, calls) ==
    \A name \in StatNames :
        LET mine == CallsFor(calls, name) IN
        IF mine = <<>> THEN name \notin DOMAIN ps
        ELSE /\ name \in DOMAIN ps
             /\ ps[name].total_executions = Len(mine)
             /\ ps[name].successful_executions =
                    Len(SelectSeq(mine, LAMBDA c : c.success))
             /\ ps[name].successful_executions <= ps[name].total_executions
             /\ ps[name].total_time = SumTime(mine)

\* C28: after any sequence of record_plugin_execution calls, each name's
\* total_executions is the number of calls made for it, successful_executions
\* the number of those with success true (never more than the total) and
\* total_time the sum of their durations; no call removes a name or lowers
\* one of its counters.
C28_Step ==
    /\ Tallied(plugin_stats', stat_calls')
    /\ \A name \in DOMAIN plugin_stats :
          /\ name \in DOMAIN plugin_stats'
          /\ plugin_stats'[name].total_executions >= plugin_stats[name].total_executions
          /\ plugin_stats'[name].successful_executions >=
                 plugin_stats[name].successful_executions
          /\ plugin_stats'[name].total_time >= plugin_stats[name].total_time

C28_CountersAdditive == [][C28_Step]_vars

\* three calls: a succeeds in 2 ms, a fails in 5 ms, b succeeds in 0 ms
C28_Witness ==
    /\ Len(stat_calls) = 3
    /\ StatNames \subseteq DOMAIN plugin_stats
    /\ plugin_stats["a"] = [total_executions |-> 2, successful_executions |-> 1,
                            total_time |-> 7]
    /\ plugin_stats["b"] = [total_executions |-> 1, successful_executions |-> 1,
                            total_time |-> 0]


(***************************************************************************)
(* SpecRace: request threads inside RateLimiter.check_rate_limit for one   *)
(* key.  The method takes no lock, so a thread may be suspended between    *)
(* any two of its statements that read or write self.requests.             *)
(*   pc "idle"   : outside the method                                      *)
(*      "prune"  : about to evaluate the pruning comprehension (107)       *)
(*      "store"  : about to bind its result to self.requests[key] (107)    *)
(*      "minute" : about to count the last minute's requests (110-112)     *)
(*      "hour"   : about to test the hour's limit (115-116)                *)
(*      "append" : about to append current_time (119)                      *)
(***************************************************************************)
LimiterThreads == {"t1", "t2"}

\* how many calls one thread makes
MaxThreadCalls == 2

\* how many requests the key has made, one after the other, before the
\* threads start: none, or one less than the minute's limit
EarlierCalls == {0, max_requests_per_minute - 1}

\* what n calls of check_rate_limit made one after the other at time now
\* leave, n being less than the minute's limit: all are allowed and appended
SequentialCalls(n, now) ==
    [requests |-> IF n = 0 THEN EmptyDict
                  ELSE DictPut(EmptyDict, RateKey, [i \in 1..n |-> now]),
     history |-> [i \in 1..n |->
                     [key |-> RateKey, time |-> now, allowed |-> TRUE,
                      message |-> "none"]]]

OutsideCall == [pc |-> "idle", current_time |-> 0, kept |-> <<>>, calls |-> 0]

InitRace ==
    /\ PMIdle /\ CcdIdle /\ VerIdle /\ MatchIdle /\ SecIdle /\ MonIdle /\ GateIdle
    /\ stat_calls = <<>> /\ registry_threads = <<>> /\ audit_threads = <<>>
    /\ clock = 0
    /\ \E n \in EarlierCalls :
          /\ requests = SequentialCalls(n, 0).requests
          /\ rate_history = SequentialCalls(n, 0).history
    /\ limiter_threads = [t \in LimiterThreads |-> OutsideCall]

notRace == <<pmVars, ccdVars, verVars, matchVars, secVars, monVars, gate_log,
             stat_calls, registry_threads, audit_threads>>

\* 'current_time = time.time()' and 'if key not in self.requests: ... = []'
LimiterEnter(t) ==
    /\ limiter_threads[t].pc = "idle"
    /\ limiter_threads[t].calls < MaxThreadCalls
    /\ requests' = IF RateKey \in DOMAIN requests THEN requests
                   ELSE DictPut(requests, RateKey, <<>>)
    /\ limiter_threads' = [limiter_threads EXCEPT ![t] =
           [pc |-> "prune", current_time |-> clock, kept |-> <<>>,
            calls |-> @.calls + 1]]
    /\ UNCHANGED <<clock, rate_history, notRace>>

\* '[t for t in self.requests[key] if current_time - t < 3600]'
LimiterPrune(t) ==
    /\ limiter_threads[t].pc = "prune"
    /\ limiter_threads' = [limiter_threads EXCEPT ![t].pc = "store",
           ![t].kept = SelectSeq(requests[RateKey],
                           LAMBDA s : limiter_threads[t].current_time - s < HOUR_SECONDS)]
    /\ UNCHANGED <<clock, requests, rate_history, notRace>>

\* 'self.requests[key] = ...': the list read at "prune" replaces the list
\* that is there now
LimiterStore(t) ==
    /\ limiter_threads[t].pc = "store"
    /\ requests' = DictPut(requests, RateKey, limiter_threads[t].kept)
    /\ limiter_threads' = [limiter_threads EXCEPT ![t].pc = "minute"]
    /\ UNCHANGED <<clock, rate_history, notRace>>

\* the call returns: its outcome joins the calls made so far
LimiterReturn(t, allowed, message) ==
    /\ rate_history' = Append(rate_history,
           [key |-> RateKey, time |-> limiter_threads[t].current_time,
            allowed |-> allowed, message |-> message])
    /\ limiter_threads' = [limiter_threads EXCEPT ![t].pc = "idle", ![t].kept = <<>>]

LimiterMinute(t) ==
    /\ limiter_threads[t].pc = "minute"
    /\ IF Len(minute_requests(requests[RateKey], limiter_threads[t].current_time))
              >= max_requests_per_minute
       THEN LimiterReturn(t, FALSE, "per_minute")
       ELSE /\ limiter_threads' = [limiter_threads EXCEPT ![t].pc = "hour"]
            /\ UNCHANGED rate_history
    /\ UNCHANGED <<clock, requests, notRace>>

LimiterHour(t) ==
    /\ limiter_threads[t].pc = "hour"
    /\ IF Len(requests[RateKey]) >= max_requests_per_hour
       THEN LimiterReturn(t, FALSE, "per_hour")
       ELSE /\ limiter_threads' = [limiter_threads EXCEPT ![t].pc = "append"]
            /\ UNCHANGED rate_history
    /\ UNCHANGED <<clock, requests, notRace>>

\* 'self.requests[key].append(current_time)' and 'return True, None'
LimiterAppend(t) ==
    /\ limiter_threads[t].pc = "append"
    /\ requests' = DictPut(requests, RateKey,
                       Append(requests[RateKey], limiter_threads[t].current_time))
    /\ LimiterReturn(t, TRUE, "none")
    /\ UNCHANGED <<clock, notRace>>

NextRace ==
    \E t \in LimiterThreads :
        \/ LimiterEnter(t)
        \/ LimiterPrune(t)
        \/ LimiterStore(t)
        \/ LimiterMinute(t)
        \/ LimiterHour(t)
        \/ LimiterAppend(t)

SpecRace == InitRace /\ [][NextRace]_vars

\* the calls of the key that were allowed
AllowedCalls == SelectSeq(rate_history, LAMBDA c : c.key = RateKey /\ c.allowed)

\* how many elements of a sequence satisfy Test
CountOf(s, Test(_)) == Len(SelectSeq(s, Test))

\* C29: concurrent check_rate_limit calls for one key exclude each other: of
\* the calls whose timestamps lie within one 60-second window at most 60 are
\* allowed, and the timestamp of every allowed call of the last hour is in
\* the key's record.
C29_NoUndercount ==
    /\ \A i \in 1..Len(AllowedCalls) :
          CountOf(AllowedCalls,
                  LAMBDA c : c.time >= AllowedCalls[i].time
                             /\ c.time - AllowedCalls[i].time < MINUTE_SECONDS)
              <= max_requests_per_minute
    /\ RateKey \in DOMAIN requests =>
          \A i \in 1..Len(AllowedCalls) :
              clock - AllowedCalls[i].time < HOUR_SECONDS =>
                  CountOf(AllowedCalls, LAMBDA c : c.time = AllowedCalls[i].time)
                      <= CountOf(requests[RateKey],
                                 LAMBDA s : s = AllowedCalls[i].time)


(***************************************************************************)
(* SpecRead: one thread calls shutdown() and then init() on the manager    *)
(* (bot.py's signal handler calls shutdown() while the server's request    *)
(* threads are serving) and a request thread calls get_matched_plugin.     *)
(* plugin_manager.py creates no lock: each statement that reads or writes  *)
(* PLUGIN_REGISTRY is a step of its own.                                   *)
(*   the writer is at "up" (initialized, outside a call), "clear" (the     *)
(*   hooks of shutdown() were called, the clear() calls are next), "down"  *)
(*   (shut down, outside a call), "scan" (init() has cleared the           *)
(*   registry), "load" (phase 2 has registered the first k plugins)        *)
(***************************************************************************)
\* how many times the writer runs shutdown() and init()
MaxWriterRounds == 1

\* how many calls of get_matched_plugin the reader makes
MaxReads == 2

ReadInputs ==
    { [raw_msg |-> <<"/", d>>, chat_type |-> "private", sender_id |-> u,
       is_at_bot |-> FALSE] : d \in Dirs, u \in {GUEST_QQ, MASTER_QQ} }

NoRead == [pc |-> "idle", input |-> [raw_msg |-> <<>>, chat_type |-> "private",
                                     sender_id |-> GUEST_QQ, is_at_bot |-> FALSE],
           i |-> 0, seen |-> <<>>, returned |-> FALSE, result |-> "None", reads |-> 0]

InitRead ==
    /\ plugin_dir = GateDir
    /\ PLUGIN_REGISTRY = GateLoaded.reg
    /\ LOADED_PLUGIN_VERSIONS = GateLoaded.versions
    /\ DEPENDENCY_GRAPH = GateLoaded.graph
    /\ initialized = TRUE
    /\ shutdown_calls = [d \in Dirs |-> 0]
    /\ module_execs = GateLoaded.execs
    /\ pm_trace = [op |-> "init", loaded |-> {}, hooked |-> {}, inits |-> 1, raised |-> FALSE,
                   returned |-> "None", arg |-> "",
                   scan_execs |-> scan_plugins_metadata(GateDir).execs]
    /\ CcdIdle /\ VerIdle /\ MatchIdle /\ RateIdle /\ SecIdle /\ MonIdle /\ GateIdle
    /\ stat_calls = <<>> /\ limiter_threads = <<>> /\ audit_threads = <<>>
    /\ registry_threads =
           [writer |-> [pc |-> "up", k |-> 0, rounds |-> 0], reader |-> NoRead]

notRead == <<ccdVars, verVars, matchVars, rateVars, secVars, monVars, gate_log,
             stat_calls, limiter_threads, audit_threads, plugin_dir, pm_trace>>

\* shutdown(): the loop over the registry that calls the on_shutdown hooks
WriterHooks ==
    /\ registry_threads.writer.pc = "up"
    /\ registry_threads.writer.rounds < MaxWriterRounds
    /\ LET hooks == ShutdownHooks(PLUGIN_REGISTRY, shutdown_calls)
       IN  /\ shutdown_calls' = hooks.calls
           /\ registry_threads' = [registry_threads EXCEPT
                  !.writer.pc = IF hooks.raised THEN "up" ELSE "clear",
                  !.writer.rounds = @ + 1]
    /\ UNCHANGED <<PLUGIN_REGISTRY, LOADED_PLUGIN_VERSIONS, DEPENDENCY_GRAPH,
                   initialized, module_execs, notRead>>

\* shutdown(): the three clear() calls and '_initialized = False'
WriterClear ==
    /\ registry_threads.writer.pc = "clear"
    /\ ShutdownAfterLoop(FALSE)
    /\ registry_threads' = [registry_threads EXCEPT !.writer.pc = "down"]
    /\ UNCHANGED <<shutdown_calls, module_execs, notRead>>

\* init(): the test of _initialized and the three clear() calls
WriterInitClear ==
    /\ registry_threads.writer.pc = "down"
    /\ ~initialized
    /\ PLUGIN_REGISTRY' = <<>>
    /\ LOADED_PLUGIN_VERSIONS' = EmptyDict
    /\ DEPENDENCY_GRAPH' = EmptyDict
    /\ registry_threads' = [registry_threads EXCEPT !.writer.pc = "scan"]
    /\ UNCHANGED <<initialized, shutdown_calls, module_execs, notRead>>

\* init(): phase 1 and the cycle check; a cycle ends init() there
WriterScan ==
    /\ registry_threads.writer.pc = "scan"
    /\ LET scan == scan_plugins_metadata(plugin_dir)
       IN  /\ DEPENDENCY_GRAPH' = scan.graph
           /\ registry_threads' = [registry_threads EXCEPT
                  !.writer.pc = IF HasCycle(scan.graph, scan.order) THEN "down"
                                ELSE "load",
                  !.writer.k = 0]
    /\ UNCHANGED <<PLUGIN_REGISTRY, LOADED_PLUGIN_VERSIONS, initialized,
                   shutdown_calls, module_execs, notRead>>

\* what phase 2 registers on this plugin directory, in its order
Phase2 ==
    load_plugins_by_dependency(plugin_dir, scan_plugins_metadata(plugin_dir).order,
                               module_execs)

\* init(): phase 2 registers its next plugin, 'PLUGIN_REGISTRY.append(...)'
\* and 'LOADED_PLUGIN_VERSIONS[plugin_name] = ...'
WriterLoad ==
    /\ registry_threads.writer.pc = "load"
    /\ registry_threads.writer.k < Len(Phase2.reg)
    /\ LET plugin == Phase2.reg[registry_threads.writer.k + 1]
       IN  /\ PLUGIN_REGISTRY' = Append(PLUGIN_REGISTRY, plugin)
           /\ LOADED_PLUGIN_VERSIONS' =
                  DictPut(LOADED_PLUGIN_VERSIONS, plugin.plugin_path, plugin.version)
    /\ registry_threads' = [registry_threads EXCEPT !.writer.k = @ + 1]
    /\ UNCHANGED <<DEPENDENCY_GRAPH, initialized, shutdown_calls, module_execs,
                   notRead>>

\* init(): '_initialized = True' after phase 2
WriterInitDone ==
    /\ registry_threads.writer.pc = "load"
    /\ registry_threads.writer.k = Len(Phase2.reg)
    /\ initialized' = TRUE
    /\ module_execs' = Phase2.execs
    /\ registry_threads' = [registry_threads EXCEPT !.writer.pc = "up"]
    /\ UNCHANGED <<PLUGIN_REGISTRY, LOADED_PLUGIN_VERSIONS, DEPENDENCY_GRAPH,
                   shutdown_calls, notRead>>

readerFrame == <<PLUGIN_REGISTRY, LOADED_PLUGIN_VERSIONS, DEPENDENCY_GRAPH,
                 initialized, shutdown_calls, module_execs, notRead>>

\* get_matched_plugin is called: 'for plugin in PLUGIN_REGISTRY' makes an
\* iterator on the list, at its first position
ReaderEnter ==
    /\ registry_threads.reader.pc = "idle"
    /\ registry_threads.reader.reads < MaxReads
    /\ \E input \in ReadInputs :
          registry_threads' = [registry_threads EXCEPT !.reader =
              [pc |-> "iter", input |-> input, i |-> 1, seen |-> <<>>,
               returned |-> FALSE, result |-> "None", reads |-> @.reads + 1]]
    /\ UNCHANGED readerFrame

\* one turn of the loop: the iterator yields the element at its position in
\* the list as it is now, or ends when the position is past the list's end
ReaderNext ==
    /\ registry_threads.reader.pc = "iter"
    /\ LET r == registry_threads.reader
           in == r.input
       IN  IF r.i > Len(PLUGIN_REGISTRY)
           THEN registry_threads' = [registry_threads EXCEPT
                    !.reader.pc = "idle", !.reader.returned = TRUE,
                    !.reader.result = "None"]
           ELSE LET plugin == PLUGIN_REGISTRY[r.i]
                    skip == \/ SkipScene(plugin, in.chat_type)
                            \/ SkipPermission(plugin, in.sender_id)
                            \/ SkipMention(plugin, in.chat_type, in.is_at_bot)
                            \/ matched_cmd(plugin, in.raw_msg) = <<>>
                IN  registry_threads' = [registry_threads EXCEPT
                        !.reader.seen = Append(@, plugin.plugin_path),
                        !.reader.i = @ + 1,
                        !.reader.pc = IF skip THEN "iter" ELSE "idle",
                        !.reader.returned = ~skip,
                        !.reader.result = IF skip THEN "None" ELSE plugin.plugin_path]
    /\ UNCHANGED readerFrame

NextRead ==
    \/ WriterHooks \/ WriterClear \/ WriterInitClear \/ WriterScan
    \/ WriterLoad \/ WriterInitDone
    \/ ReaderEnter \/ ReaderNext

SpecRead == InitRead /\ [][NextRead]_vars

\* the registries the manager has between two mutations of this behaviour:
\* the loaded one and the empty one
SettledRegistries ==
    { [i \in 1..Len(GateLoaded.reg) |-> GateLoaded.reg[i].plugin_path], <<>> }

IsPrefix(s, t) == Len(s) <= Len(t) /\ SubSeq(t, 1, Len(s)) = s

\* C30: a get_matched_plugin call that runs while shutdown() or init() runs
\* sees the registry as it was before the mutation or as it is after it: when
\* it returns None it has gone through one of these two registries entirely,
\* and when it returns a plugin it has gone through the beginning of one.
C30_ReadsSettledRegistry ==
    registry_threads.reader.returned =>
        IF registry_threads.reader.result = "None"
        THEN registry_threads.reader.seen \in SettledRegistries
        ELSE \E reg \in SettledRegistries : IsPrefix(registry_threads.reader.seen, reg)


(***************************************************************************)
(* SpecWorkers: request threads inside SecurityManager.log_audit_event.    *)
(* The method takes no lock; a thread may be suspended between any two of  *)
(* its statements that read or write self.audit_logs.                      *)
(*   pc "idle"  : outside the method                                       *)
(*      "test"  : has appended its entry, 'if len(self.audit_logs) > 1000' *)
(*                is next (325)                                            *)
(*      "slice" : about to evaluate 'self.audit_logs[-1000:]' (326)        *)
(*      "store" : about to bind the slice to self.audit_logs (326)         *)
(* The timestamp of an entry is the number of entries appended before it.  *)
(***************************************************************************)
AuditThreads == {"w1", "w2"}

\* how many calls of log_audit_event one thread makes
MaxWorkerCalls == 2

\* how many entries were appended, one call after the other, before the
\* threads start: none, or as many as the log keeps
EarlierEntries == {0, AUDIT_LOG_LIMIT}

WorkerUser(t) == IF t = "w1" THEN GUEST_QQ ELSE MASTER_QQ

AuditEntry(now, user_id) ==
    [timestamp |-> now, user_id |-> user_id, role |-> get_user_role(user_id),
     action |-> "plugin_executed", resource |-> "a", success |-> TRUE,
     ip_address |-> "N/A"]

InitWorkers ==
    /\ PMIdle /\ CcdIdle /\ VerIdle /\ MatchIdle /\ MonIdle /\ GateIdle
    /\ requests = EmptyDict /\ rate_history = <<>>
    /\ blacklist = {} /\ perm_check = NoPermCheck
    /\ stat_calls = <<>> /\ limiter_threads = <<>> /\ registry_threads = <<>>
    /\ \E n \in EarlierEntries :
          /\ clock = n
          /\ audit_logs = [i \in 1..n |-> AuditEntry(i - 1, GUEST_QQ)]
    /\ audit_threads = [t \in AuditThreads |-> [pc |-> "idle", kept |-> <<>>, calls |-> 0]]

notWorkers == <<pmVars, ccdVars, verVars, matchVars, requests, rate_history,
                blacklist, perm_check, monVars, gate_log, stat_calls,
                limiter_threads, registry_threads>>

\* 'audit_entry = {...}' and 'self.audit_logs.append(audit_entry)'
WorkerAppend(t) ==
    /\ audit_threads[t].pc = "idle"
    /\ audit_threads[t].calls < MaxWorkerCalls
    /\ audit_logs' = Append(audit_logs, AuditEntry(clock, WorkerUser(t)))
    /\ clock' = clock + 1
    /\ audit_threads' = [audit_threads EXCEPT ![t].pc = "test", ![t].calls = @ + 1]
    /\ UNCHANGED notWorkers

\* 'if len(self.audit_logs) > 1000'; when it is not, the method returns
WorkerTest(t) ==
    /\ audit_threads[t].pc = "test"
    /\ audit_threads' = [audit_threads EXCEPT
           ![t].pc = IF Len(audit_logs) > AUDIT_LOG_LIMIT THEN "slice" ELSE "idle"]
    /\ UNCHANGED <<clock, audit_logs, notWorkers>>

\* 'self.audit_logs[-1000:]': a new list of the last 1000 entries
WorkerSlice(t) ==
    /\ audit_threads[t].pc = "slice"
    /\ audit_threads' = [audit_threads EXCEPT ![t].pc = "store",
           ![t].kept = IF Len(audit_logs) > AUDIT_LOG_LIMIT
                       THEN SubSeq(audit_logs, Len(audit_logs) - AUDIT_LOG_LIMIT + 1,
                                   Len(audit_logs))
                       ELSE audit_logs]
    /\ UNCHANGED <<clock, audit_logs, notWorkers>>

\* 'self.audit_logs = ...': the slice replaces the list that is there now
WorkerStore(t) ==
    /\ audit_threads[t].pc = "store"
    /\ audit_logs' = audit_threads[t].kept
    /\ audit_threads' = [audit_threads EXCEPT ![t].pc = "idle", ![t].kept = <<>>]
    /\ UNCHANGED <<clock, notWorkers>>

NextWorkers ==
    \E t \in AuditThreads :
        WorkerAppend(t) \/ WorkerTest(t) \/ WorkerSlice(t) \/ WorkerStore(t)

SpecWorkers == InitWorkers /\ [][NextWorkers]_vars

\* C31: concurrent calls of log_audit_event lose no entry but the oldest ones
\* beyond the 1000 kept: each of the entries appended last (as many as the
\* threads can append) is in the audit log.
C31_NoEntryLost ==
    \A ts \in 0..(clock - 1) :
        ts >= clock - MaxWorkerCalls * Cardinality(AuditThreads) =>
            \E i \in 1..Len(audit_logs) : audit_logs[i].timestamp = ts


(***************************************************************************)
(* C32: what the registry holds of a plugin's dependencies                 *)
(***************************************************************************)
\* the dependency dep of a registered plugin is loaded: it has an entry in
\* the registry and a loaded version, and that version is in the range
DependencyLoaded(dep) ==
    /\ Registered(dep.name)
    /\ dep.name \in DOMAIN LOADED_PLUGIN_VERSIONS
    /\ VersionInRange(LOADED_PLUGIN_VERSIONS[dep.name], dep)

\* C32: in every state, each registered plugin has every dependency it
\* declares registered too, with a loaded version inside the declared range
\* from min_version to max_version; so a plugin one of whose dependencies was
\* not loaded, for whatever reason, is not registered.
C32_DependenciesLoaded ==
    \A i \in 1..Len(PLUGIN_REGISTRY) :
        \A k \in 1..Len(PLUGIN_REGISTRY[i].dependencies) :
            DependencyLoaded(PLUGIN_REGISTRY[i].dependencies[k])

\* a needs b and has it; c needs a between 1.0 and 2.0, a is v2.0.1: b and a
\* are registered, c is not
C32_Witness ==
    /\ pm_trace.op = "init" /\ initialized
    /\ DepNames(plugin_dir, "a") = <<"b">>
    /\ DepNames(plugin_dir, "b") = <<>>
    /\ DepNames(plugin_dir, "c") = <<"a">>
    /\ plugin_dir["a"].version = V_v2_0_1
    /\ plugin_dir["c"].dependencies[1].max_version = V_2_0
    /\ RegistryPaths = <<"b", "a">>


(***************************************************************************)
(* SpecHour: one key that has made many requests calls the limiter again   *)
(* while the clock advances.  It has made either 999 requests in 50        *)
(* minutes, one every 3 seconds from time 0 on (each was allowed: 20 a     *)
(* minute), and the time is 3000; or one request at time 0 and 59 at time  *)
(* 3541 (each was allowed), and the time is 3541.  rate_history holds the  *)
(* calls made from the initial state on.                                   *)
(***************************************************************************)
\* how many calls of check_rate_limit one behaviour makes
MaxHourCalls == 4

EarlierRequests == [i \in 1..(max_requests_per_hour - 1) |-> 3 * (i - 1)]

\* 59 requests within one second, most of an hour after a first one
EarlierBurst == <<0>> \o [i \in 1..(max_requests_per_minute - 1) |-> 3541]

EarlierStates ==
    { [clock |-> 3000, times |-> EarlierRequests],
      [clock |-> 3541, times |-> EarlierBurst] }

HourInstants == {3000, 3030, 3541, 3600, 3606, 6600}

InitHour ==
    /\ PMIdle /\ CcdIdle /\ VerIdle /\ MatchIdle /\ SecIdle /\ MonIdle /\ GateIdle /\ ThreadsIdle
    /\ \E earlier \in EarlierStates :
          /\ clock = earlier.clock
          /\ requests = DictPut(EmptyDict, RateKey, earlier.times)
    /\ rate_history = <<>>

HourTick ==
    /\ \E t \in HourInstants : t > clock /\ clock' = t
    /\ UNCHANGED <<requests, rate_history, notRate>>

HourCheckRateLimit ==
    /\ Len(rate_history) < MaxHourCalls
    /\ LET r == check_rate_limit(requests, RateKey, clock)
       IN  /\ requests' = r.requests
           /\ rate_history' = Append(rate_history,
                  [key |-> RateKey, time |-> clock, allowed |-> r.allowed,
                   message |-> r.message])
    /\ UNCHANGED <<clock, notRate>>

NextHour == HourTick \/ HourCheckRateLimit

SpecHour == InitHour /\ [][NextHour]_vars

\* the timestamps of a list that are less than an hour old
WithinHour(times, now) == SelectSeq(times, LAMBDA t : now - t < HOUR_SECONDS)

\* C33: after a call of check_rate_limit every timestamp the key retains is
\* less than 3600 seconds old, and the call is denied when the key retained
\* 1000 timestamps of the last 3600 seconds already, however few of them are
\* of the last 60 seconds.
C33_HourStep ==
    rate_history' # rate_history =>
        /\ \A i \in 1..Len(requests'[RateKey]) :
              clock - requests'[RateKey][i] < HOUR_SECONDS
        /\ Len(WithinHour(requests[RateKey], clock)) >= max_requests_per_hour =>
              ~rate_history'[Len(rate_history')].allowed

C33_HourWindow == [][C33_HourStep]_vars

\* the 1000th request was allowed at 3000; the next one, at 3030, is denied
\* with 1000 timestamps retained, of which fewer than 60 are of the last minute
C33_Witness ==
    /\ Len(rate_history) = 2
    /\ rate_history[1].allowed /\ ~rate_history[2].allowed
    /\ clock = 3030
    /\ Len(requests[RateKey]) = max_requests_per_hour
    /\ Len(minute_requests(requests[RateKey], clock)) < max_requests_per_minute


\* C36: a call of check_rate_limit that is denied records no timestamp: the
\* key retains what it retained before, less the timestamps an hour old or
\* older, in the same order.
C36_DeniedStep ==
    (/\ rate_history' # rate_history
     /\ ~rate_history'[Len(rate_history')].allowed) =>
        requests'[RateKey] = WithinHour(requests[RateKey], clock)

C36_DeniedNotRecorded == [][C36_DeniedStep]_vars

\* after the request at 0 and 59 requests at 3541, a 60th is allowed at 3541;
\* the request at 3600 is the 61st of its minute and is denied: the key
\* retains the 60 timestamps of 3541, the one of 0 is pruned, 3600 is not there
C36_Witness ==
    /\ Len(rate_history) = 2
    /\ rate_history[1].allowed /\ rate_history[1].time = 3541
    /\ ~rate_history[2].allowed /\ rate_history[2].time = 3600
    /\ requests[RateKey] = [i \in 1..max_requests_per_minute |-> 3541]


(***************************************************************************)
(* C34: a malformed descriptor and the rest of the batch                   *)
(***************************************************************************)
\* C34: after init, a plugin directory whose descriptor is malformed is not
\* in the batch (no entry in DEPENDENCY_GRAPH, in the registry or in the
\* loaded versions), every other directory has its metadata collected, and,
\* when the load phase ran, each of them that nothing else prevents from
\* loading is registered.
C34_MalformedExcluded ==
    pm_trace.op = "init" =>
        \A p \in Dirs :
            IF ~plugin_dir[p].readable
            THEN /\ p \notin DOMAIN DEPENDENCY_GRAPH
                 /\ ~Registered(p)
                 /\ p \notin DOMAIN LOADED_PLUGIN_VERSIONS
            ELSE /\ p \in DOMAIN DEPENDENCY_GRAPH
                 /\ DEPENDENCY_GRAPH[p] = DepNames(plugin_dir, p)
                 /\ (initialized /\ Sound(plugin_dir, p)) => Registered(p)

\* the descriptor of b is malformed; a and c, which do not need b, are scanned
\* and registered
C34_Witness ==
    /\ pm_trace.op = "init" /\ initialized
    /\ ~plugin_dir["b"].readable
    /\ DOMAIN DEPENDENCY_GRAPH = {"a", "c"}
    /\ RegistryPaths = <<"a", "c">>


(***************************************************************************)
(* C35: what the audit entry of a plugin execution holds                   *)
(***************************************************************************)
\* C35: the audit entry appended for a plugin execution holds the details
\* the dispatcher passed to log_audit_event, the elapsed execution time among
\* them.
C35_ElapsedTimeStored ==
    \A i \in 1..Len(audit_logs) :
        audit_logs[i].action = "plugin_executed" =>
            /\ "details" \in DOMAIN audit_logs[i]
            /\ audit_logs[i].details = ExecutionDetails(0)


(***************************************************************************)
(* SpecAgain: init() called again and again, on an initialized manager,    *)
(* after shutdown() and after an init the cycle check aborted, while the   *)
(* plugin directory on disk changes between the calls                      *)
(***************************************************************************)
\* how many times init() is called in one behaviour
MaxInitCalls == 3

NoDefect == [dir |-> "-", defect |-> "none", ranged |-> TRUE]

\* the dependency names on disk: none; a needs b; a and b need each other;
\* c needs a and a needs b
AgainGraphs ==
    { [d \in Dirs |-> <<>>],
      [d \in Dirs |-> IF d = "a" THEN <<"b">> ELSE <<>>],
      [d \in Dirs |-> IF d = "a" THEN <<"b">> ELSE IF d = "b" THEN <<"a">> ELSE <<>>],
      [d \in Dirs |-> IF d = "c" THEN <<"a">> ELSE IF d = "a" THEN <<"b">> ELSE <<>>] }

AgainDirs == {[d \in Dirs |-> Descriptor(d, g[d], NoDefect)] : g \in AgainGraphs}

InitAgain ==
    /\ plugin_dir \in AgainDirs
    /\ PLUGIN_REGISTRY = <<>>
    /\ LOADED_PLUGIN_VERSIONS = EmptyDict
    /\ DEPENDENCY_GRAPH = EmptyDict
    /\ initialized = FALSE
    /\ shutdown_calls = [d \in Dirs |-> 0]
    /\ module_execs = [d \in Dirs |-> 0]
    /\ pm_trace = [op |-> "new", loaded |-> {}, hooked |-> {}, inits |-> 0, raised |-> FALSE,
                   returned |-> "None", arg |-> "", scan_execs |-> {}]
    /\ CcdIdle /\ VerIdle /\ MatchIdle /\ RateIdle /\ SecIdle /\ MonIdle /\ GateIdle /\ ThreadsIdle

\* 'if self._initialized: logger.warning(...); return'
InitWhileInitialized ==
    /\ initialized
    /\ pm_trace.inits < MaxInitCalls
    /\ pm_trace' = [pm_trace EXCEPT !.op = "init", !.inits = @ + 1,
                                   !.raised = FALSE, !.returned = "None",
                                   !.arg = ""]
    /\ UNCHANGED <<plugin_dir, PLUGIN_REGISTRY, LOADED_PLUGIN_VERSIONS,
                   DEPENDENCY_GRAPH, initialized, shutdown_calls, module_execs>>

InitWhileUninitialized ==
    /\ pm_trace.inits < MaxInitCalls
    /\ PMInitRun

\* the plugin directory is edited on disk between two calls
EditPluginDir ==
    /\ plugin_dir' \in AgainDirs \ {plugin_dir}
    /\ UNCHANGED <<PLUGIN_REGISTRY, LOADED_PLUGIN_VERSIONS, DEPENDENCY_GRAPH,
                   initialized, shutdown_calls, module_execs, pm_trace>>

NextAgain ==
    \/ InitWhileInitialized /\ UNCHANGED notPm
    \/ InitWhileUninitialized /\ UNCHANGED notPm
    \/ Shutdown /\ UNCHANGED notPm
    \/ EditPluginDir /\ UNCHANGED notPm

SpecAgain == InitAgain /\ [][NextAgain]_vars

InitCallStep == pm_trace'.op = "init" /\ pm_trace'.inits = pm_trace.inits + 1

ShutdownCallStep == pm_trace'.op = "shutdown" /\ pm_trace'.inits = pm_trace.inits

RegisteredNext(d) ==
    \E i \in 1..Len(PLUGIN_REGISTRY') : PLUGIN_REGISTRY'[i].plugin_path = d

C37_Step ==
    /\ (InitCallStep /\ initialized) =>
          /\ PLUGIN_REGISTRY' = PLUGIN_REGISTRY
          /\ LOADED_PLUGIN_VERSIONS' = LOADED_PLUGIN_VERSIONS
          /\ DEPENDENCY_GRAPH' = DEPENDENCY_GRAPH
          /\ module_execs' = module_execs
          /\ pm_trace'.scan_execs = pm_trace.scan_execs
          /\ initialized'
    /\ (InitCallStep /\ ~initialized) =>
          /\ DEPENDENCY_GRAPH' = DiskGraph(plugin_dir)
          /\ pm_trace'.scan_execs = Scanned(plugin_dir)
          /\ initialized' = Acyclic(DiskGraph(plugin_dir))
          /\ Acyclic(DiskGraph(plugin_dir)) =>
                \A d \in Dirs : Sound(plugin_dir, d) =>
                    /\ RegisteredNext(d)
                    /\ module_execs'[d] = module_execs[d] + 1
    /\ ShutdownCallStep => (~initialized' /\ PLUGIN_REGISTRY' = <<>>)

\* C37: init() on an initialized manager changes neither PLUGIN_REGISTRY nor
\* LOADED_PLUGIN_VERSIONS nor DEPENDENCY_GRAPH and executes no plugin module,
\* even when the directory on disk has changed; after shutdown(), and after an
\* init the cycle check aborted, the manager is uninitialized, and the next
\* init() scans the directory again and, when it finds no cycle, loads every
\* loadable plugin again.
C37_InitOnlyWhenUninitialized == [][C37_Step]_vars

\* a third init() call, made after a no-op call and a shutdown, or after an
\* aborted init, has loaded plugin a a second time
C37_Witness ==
    /\ pm_trace.op = "init" /\ pm_trace.inits = 3
    /\ initialized
    /\ module_execs["a"] = 2
    /\ shutdown_calls["a"] = 1


\* C38: a message for which a plugin handler was invoked, one that raised
\* included, does not enter the auto-reply path and gets no auto-reply.
C38_OneResponder ==
    (gate_log.served /\ gate_log.handler_calls # <<>>) =>
        /\ ~gate_log.auto_reply_path
        /\ \A i \in 1..Len(gate_log.sent) : gate_log.sent[i].kind # "auto_reply"


HELP_COMMAND == <<"/", "h", "e", "l", "p">>

MENU_COMMAND == <<"/", "cai", "dan">>

\* C39: validate_command accepts "/关于", "/help" and "/菜单", and a message
\* that is exactly "/关于", once it has passed the checks before the dispatch,
\* is answered with the about reply and marked handled.
C39_AboutAnswered ==
    /\ validate_command(ABOUT_COMMAND)
    /\ validate_command(HELP_COMMAND)
    /\ validate_command(MENU_COMMAND)
    /\ (/\ gate_log.served
        /\ gate_log.denial = "none"
        /\ gate_log.request.post_type = "message"
        /\ gate_log.request.raw_message = ABOUT_COMMAND)
       => /\ gate_log.handled
          /\ \E i \in 1..Len(gate_log.sent) : gate_log.sent[i].kind = "about"

=============================================================================
